---- MODULE Spec2Model ----
(***************************************************************************)
(* State-machine model of the user-memory service: the DuckDB tables       *)
(* memory / memory_entities, the embedding service with its LRU cache, the *)
(* MemoryService request handlers (store, search, retrieve, update,        *)
(* delete, list), the screen monitor (tick / storeCapture), the HTTP       *)
(* middleware chain, the start-up of the database connection, the         *)
(* retention service (check / purge), the second embedding service with a  *)
(* Map as cache, and the conversational-query classifier.                  *)
(*                                                                         *)
(* Every `await` of the JavaScript source is a scheduling point: a handler *)
(* is a sequence of atomic steps, one per awaited database statement or    *)
(* model call, and steps of different tasks interleave freely.  The        *)
(* database runs one statement at a time and has no transactions and no    *)
(* foreign keys (database.js createTables).                                *)
(*                                                                         *)
(* Identifiers (memory ids, user ids) are opaque quote-free tokens; the    *)
(* string-built SQL is modelled by the predicate its WHERE clause states.  *)
(***************************************************************************)
EXTENDS Integers, Sequences, FiniteSets, Bags, TLC

VARIABLES
  memory,      \* table memory: [id -> row], DOMAIN = ids present (PRIMARY KEY id)
  entities,    \* table memory_entities: bag of rows [mid, val]
  now,         \* the database clock: the last CURRENT_TIMESTAMP handed out (ms)
  nextId,      \* number of memory ids generated so far (ids are 1..nextId)
  isLoaded,    \* EmbeddingService.isLoaded
  cache,       \* EmbeddingService.cache: sequence of [key, vec], least recent first
  cacheStats,  \* EmbeddingService.cacheStats: [hits, misses, totalRequests]
  pc,          \* per task: the await the task is parked at
  req,         \* per task: the request (operation and arguments)
  loc,         \* per task: the handler's local variables / result
  mon,         \* MonitorService fields, and the caller of each tick
  shot,        \* ScreenCaptureService: lastScreenshotBuffer, lastScreenshotPNG
  ocr,         \* OCRService: isInitialized, lastTextHash (and, as history,
               \* what extractText returned last)
  ret,         \* RetentionService fields, its timer and its running checks
  dbs          \* DatabaseService: isInitialized, the connection attempts, the
               \* index, and the tables context_rules and installed_skills

vars == <<memory, entities, now, nextId, isLoaded, cache, cacheStats,
          pc, req, loc, mon, shot, ocr, ret, dbs>>

dbVars  == <<memory, entities, now>>
embVars == <<isLoaded, cache, cacheStats>>
monVars == <<mon, shot, ocr>>
svcVars == <<ret, dbs>>

----------------------------------------------------------------------------
(* Bounds of the model                                                     *)

\* memory ids ever generated (Store and storeCapture stop at the bound)
MaxIds == 2
\* whole seconds the database clock may reach
MaxSec == 1
\* requests the embedding cache statistics count before the counters saturate
MaxStat == 3
\* retention checks ever begun
MaxChecks == 3
\* RETENTION_MAX_DAYS and RETENTION_PURGE_DAYS as the model configures them
\* (the defaults are 1825 and 365)
maxDays == 2
purgeDays == 1

(* Program constants                                                       *)

\* validateMemoryText: maximum text length
MaxTextLen == 10000
\* embedding dimension (FLOAT[384], length checks)
EmbDim == 384
\* getCacheKey: slice(0, 200)
CacheKeyLen == 200
\* toISOString().slice(0, 19): a Date has 1000 ms per second, the slice keeps seconds
MsPerSec == 1000
\* storeCapture: substring(0, 2000)
CaptureTextLen == 2000
\* tick: ocrResult.text.length < 10
MinOcrLen == 10
\* EMBEDDING_CACHE_SIZE as configured for the model (default 1000)
CacheSize == 2

Procs == {"p1", "p2"}
Ticks == {"k1", "k2"}
Tasks == Procs \cup Ticks

NoUser == "none"
Ids == 1..MaxIds

\* the instants the clock can show: 1 ms after the start, then every second
Instants == {1} \cup {s * MsPerSec : s \in 1..MaxSec}

----------------------------------------------------------------------------
(* Texts.  A text is the first n characters of the character stream core   *)
(* (a sequence of named pieces), surrounded by pad characters of           *)
(* whitespace.                                                             *)

Text(core, n, pad) == [core |-> core, n |-> n, pad |-> pad]
NoText == Text(<< >>, 0, 0)
TextLen(t) == t.n + t.pad
\* String.prototype.trim
Trim(t) == [t EXCEPT !.pad = 0]
\* JavaScript truthiness of a string (undefined and "" are falsy)
Truthy(t) == TextLen(t) > 0
\* String.prototype.substring(0, k) of a text without padding
Substring(t, k) == IF t.n > k THEN [t EXCEPT !.n = k] ELSE t
Min(a, b) == IF a < b THEN a ELSE b

(* Error messages, as the sequence of their fragments; `includes` of the   *)
(* error handler looks for one fragment.                                   *)
MsgNotFound    == <<"Memory ", "not found">>
MsgUpdNotFound == <<"Memory ", "not found", ": <memoryId>">>
MsgTextEmpty   == <<"Memory text must be a non-empty string">>
MsgTextLong    == <<"Memory text exceeds maximum length of 10,000 characters">>
MsgEmbNotReady == <<"Embedding", " service not initialized">>
MsgModelNotInit == <<"Embedding", " model not initialized. Call initialize() first.">>
MsgEmbText     == <<"Text must be a non-empty string">>
MsgEmbDim      == <<"Expected 384 dimensions, got <n>">>
MsgEmbNaN      == <<"Embedding", " contains NaN or Infinity values">>
MsgStoreDim    == <<"Invalid", " ", "embedding", ": expected 384-dim array">>
MsgModel       == <<"<model runtime error>">>
MsgDb          == <<"<DuckDB error>">>
MsgNone        == << >>
MsgCannotStore(inner) == <<"Cannot store memory without ", "embedding", ": ">> \o inner

Includes(msg, frag) == \E i \in 1..Len(msg) : msg[i] = frag

errorHandler_NoNotFound(msg) ==
  IF Includes(msg, "Invalid") \/ Includes(msg, "validation")
       THEN [code |-> "INVALID_REQUEST", status |-> 400]
  ELSE [code |-> "INTERNAL_ERROR", status |-> 500]

\* errorHandler: error code and HTTP status from the message
errorHandler(msg) ==
  IF Includes(msg, "not found") THEN [code |-> "NOT_FOUND", status |-> 404]
  ELSE IF Includes(msg, "Invalid") \/ Includes(msg, "validation")
       THEN [code |-> "INVALID_REQUEST", status |-> 400]
  ELSE IF Includes(msg, "Database") \/ Includes(msg, "database")
       THEN [code |-> "DATABASE_ERROR", status |-> 500]
  ELSE IF Includes(msg, "Embedding") \/ Includes(msg, "embedding")
       THEN [code |-> "EMBEDDING_FAILED", status |-> 500]
  ELSE [code |-> "INTERNAL_ERROR", status |-> 500]

\* validateMemoryText: the length is checked before the trim
validateMemoryText_NoLimit(t) ==
  IF ~Truthy(t) THEN [ok |-> FALSE, text |-> NoText, err |-> MsgTextEmpty]
  ELSE [ok |-> TRUE, text |-> Trim(t), err |-> MsgNone]

validateMemoryText(t) ==
  IF ~Truthy(t) THEN [ok |-> FALSE, text |-> NoText, err |-> MsgTextEmpty]
  ELSE IF TextLen(t) > MaxTextLen
       THEN [ok |-> FALSE, text |-> NoText, err |-> MsgTextLong]
  ELSE [ok |-> TRUE, text |-> Trim(t), err |-> MsgNone]

\* extractUserId: context?.userId || 'default_user'
extractUserId(ctxUser) == IF ctxUser = NoUser THEN "default_user" ELSE ctxUser

(* Entities as the caller sends them: [type, value]; "" is a missing field *)
Ent(type, value) == [type |-> type, value |-> value]
validateEntity(e) == e.type # "" /\ e.value # ""
MaxEntities == 100

RECURSIVE Filter(_, _)
Filter(s, i) ==
  IF i > Len(s) THEN << >>
  ELSE IF validateEntity(s[i]) THEN <<s[i]>> \o Filter(s, i + 1)
  ELSE Filter(s, i + 1)

\* normalizeEntities: entities.filter(validateEntity).slice(0, 100)
normalizeEntities(s) ==
  LET f == Filter(s, 1) IN SubSeq(f, 1, Min(Len(f), MaxEntities))

----------------------------------------------------------------------------
(* The database                                                            *)

NoVec == [src |-> NoText, via |-> "none", dim |-> 0, finite |-> TRUE]
NoRow == [user |-> NoUser, type |-> "", text |-> NoText, emb |-> NoVec,
          createdAt |-> 0, updatedAt |-> 0]

Row(user, type, text, emb, c, u) ==
  [user |-> user, type |-> type, text |-> text, emb |-> emb,
   createdAt |-> c, updatedAt |-> u]

\* embedding FLOAT[384]: a list of another length does not cast; NaN and
\* Infinity print as bare words, which list_value(...) cannot bind
ColumnAccepts(v) == v = NoVec \/ (v.dim = EmbDim /\ v.finite)

\* INSERT INTO memory: PRIMARY KEY (id) and the embedding column type
CanInsert(id, row) == id \notin DOMAIN memory /\ ColumnAccepts(row.emb)
Inserted(id, row) == [i \in DOMAIN memory \cup {id} |->
                        IF i = id THEN row ELSE memory[i]]

\* DELETE FROM memory WHERE id = .. AND user_id = ..
DeletedMemory_None(id, user) == memory

DeletedMemory(id, user) ==
  [i \in {j \in DOMAIN memory : ~(j = id /\ memory[j].user = user)} |-> memory[i]]

\* SELECT * FROM memory WHERE id = .. AND user_id = ..
SelectMemory(id, user) == {i \in DOMAIN memory : i = id /\ memory[i].user = user}

EntRow(mid, val) == [mid |-> mid, val |-> val]
\* INSERT INTO memory_entities
EntInserted(mid, val) == entities (+) SetToBag({EntRow(mid, val)})
\* DELETE FROM memory_entities WHERE memory_id = ..
EntDeleted(mid) ==
  [r \in {x \in DOMAIN entities : x.mid # mid} |-> entities[r]]
\* SELECT entity, type, entity_type FROM memory_entities WHERE memory_id = ..
SelectEntities(mid) ==
  [r \in {x \in DOMAIN entities : x.mid = mid} |-> entities[r]]

\* CURRENT_TIMESTAMP: the clock never runs backwards
Stamps(E) == {t \in E.instants : t >= now}

\* new Date(created_at).toISOString().slice(0, 19): the milliseconds are cut
IsoSeconds(t) == (t \div MsPerSec) * MsPerSec

----------------------------------------------------------------------------
(* The embedding service                                                   *)

\* a vector, by what produced it; dim and finite are what the checks read
Vec(text, via) == [src |-> text, via |-> via, dim |-> EmbDim, finite |-> TRUE]

\* what one call of the model (this.embedder) can do
ModelOutcomes == {"ok", "tensor", "error", "short", "nan"}

\* getCacheKey: text.toLowerCase().trim().slice(0, 200) (texts are lower case)
getCacheKey(t) == [core |-> t.core, n |-> Min(t.n, CacheKeyLen)]

CacheIndex(key) == {i \in 1..Len(cache) : cache[i].key = key}

\* cache.get(key) finds an entry
CacheHas_Never(key) == FALSE

CacheHas(key) == CacheIndex(key) # {}

CacheVec(key) == cache[CHOOSE i \in CacheIndex(key) : TRUE].vec

RECURSIVE Without(_, _)
Without(c, key) ==
  IF c = << >> THEN << >>
  ELSE IF Head(c).key = key THEN Without(Tail(c), key)
  ELSE <<Head(c)>> \o Without(Tail(c), key)

\* LRUCache.get with updateAgeOnGet: the entry becomes the most recent
CacheTouched(key) ==
  Without(cache, key) \o <<[key |-> key, vec |-> CacheVec(key)]>>

\* LRUCache.set: insert or replace as most recent, evict the least recent
\* entries beyond max
CacheSet_NoEvict(key, vec) ==
  Without(cache, key) \o <<[key |-> key, vec |-> vec]>>

CacheSet(key, vec) ==
  LET c == Without(cache, key) \o <<[key |-> key, vec |-> vec]>>
  IN  IF Len(c) > CacheSize THEN SubSeq(c, Len(c) - CacheSize + 1, Len(c)) ELSE c

\* generateDeterministicEmbedding: 384 sums of sines and cosines, divided by
\* their norm when it is positive
generateDeterministicEmbedding(text) == Vec(text, "fallback")

\* the model's output as generateEmbedding extracts it
ModelVec(text, o) ==
  CASE o = "ok"     -> Vec(text, "model")
    [] o = "tensor" -> generateDeterministicEmbedding(text)
    [] o = "short"  -> [Vec(text, "model") EXCEPT !.dim = EmbDim - 1]
    [] o = "nan"    -> [Vec(text, "model") EXCEPT !.finite = FALSE]
    [] OTHER        -> NoVec

\* generateEmbedding up to its first await: the readiness and input checks,
\* the statistics and the cache lookup.  status: throw | hit | miss
EmbedLookupIn(loaded, text) ==
  IF ~loaded
    THEN [status |-> "throw", vec |-> NoVec, err |-> MsgModelNotInit,
          cache |-> cache, stats |-> cacheStats]
  ELSE IF ~Truthy(text) \/ Trim(text).n = 0
    THEN [status |-> "throw", vec |-> NoVec, err |-> MsgEmbText,
          cache |-> cache, stats |-> cacheStats]
  ELSE LET key == getCacheKey(text)
           tot == [cacheStats EXCEPT !.totalRequests = @ + 1]
       IN  IF CacheHas(key)
             THEN [status |-> "hit", vec |-> CacheVec(key), err |-> MsgNone,
                   cache |-> CacheTouched(key),
                   stats |-> [tot EXCEPT !.hits = @ + 1]]
             ELSE [status |-> "miss", vec |-> NoVec, err |-> MsgNone,
                   cache |-> cache,
                   stats |-> [tot EXCEPT !.misses = @ + 1]]

EmbedLookup(text) == EmbedLookupIn(isLoaded, text)

\* guard that keeps the statistics counters within the model's bound
CanEmbed == cacheStats.totalRequests < MaxStat
\* the same for a query's embedding: a search, which writes no row, may still
\* follow the last write the bound admits (Calls says which searches do)
CanQuery == cacheStats.totalRequests <= MaxStat

\* generateEmbedding after the model call returned with outcome o: extract,
\* validate (length 384, all finite), cache, return
EmbedResult_Unchecked(text, o) ==
  LET v == ModelVec(text, o) IN
  IF o = "error"
    THEN [ok |-> FALSE, vec |-> NoVec, err |-> MsgModel, cache |-> cache]
  ELSE [ok |-> TRUE, vec |-> v, err |-> MsgNone,
        cache |-> CacheSet(getCacheKey(text), v)]

EmbedResult(text, o) ==
  LET v == ModelVec(text, o) IN
  IF o = "error"
    THEN [ok |-> FALSE, vec |-> NoVec, err |-> MsgModel, cache |-> cache]
  ELSE IF v.dim # EmbDim
    THEN [ok |-> FALSE, vec |-> NoVec, err |-> MsgEmbDim, cache |-> cache]
  ELSE IF ~v.finite
    THEN [ok |-> FALSE, vec |-> NoVec, err |-> MsgEmbNaN, cache |-> cache]
  ELSE [ok |-> TRUE, vec |-> v, err |-> MsgNone,
        cache |-> CacheSet(getCacheKey(text), v)]

----------------------------------------------------------------------------
(* Requests and tasks                                                      *)

\* the texts callers send: short and padded with whitespace, at the length
\* limit, beyond it, blank, and absent
TextInputs == {Text(<<"a">>, 5, 1), Text(<<"b">>, MaxTextLen, 0),
               Text(<<"b">>, MaxTextLen + 1, 0), Text(<< >>, 0, 1), NoText}
\* the entity arrays callers send (the last holds an entity without a type)
EntInputs == {<< >>, <<Ent("", "w"), Ent("person", "x"), Ent("place", "y")>>}
UserInputs == {NoUser, "u1"}

\* options of a list or search request: "" and 0 where the caller sends none
\* (similarities are in hundredths)
Opts(limit, offset, sortBy, sortOrder, type, minSimilarity, maxAgeDays) ==
  [limit |-> limit, offset |-> offset, sortBy |-> sortBy,
   sortOrder |-> sortOrder, type |-> type, minSimilarity |-> minSimilarity,
   maxAgeDays |-> maxAgeDays]
NoOpts == Opts(0, 0, "", "", "", 0, 0)

\* what getActiveWindow returns, and a screenshot buffer that is not there
Win(app, title) == [appName |-> app, windowTitle |-> title]
NoWin == Win("", "")
NoShot == "none"

NoReq == [op |-> "none", user |-> NoUser, id |-> 0, text |-> NoText,
          ents |-> << >>, hasEnts |-> FALSE, opts |-> NoOpts]
Req(op, user, id, text, ents, hasEnts) ==
  [NoReq EXCEPT !.op = op, !.user = user, !.id = id, !.text = text,
                !.ents = ents, !.hasEnts = hasEnts]

NoOut == [kind |-> "none"]
NoLoc == [id |-> 0, text |-> NoText, emb |-> NoVec, cur |-> NoRow,
          ents |-> << >>, i |-> 0, rows |-> << >>, total |-> 0,
          regen |-> FALSE, win |-> NoWin, titleChanged |-> FALSE,
          shot |-> NoShot, first |-> FALSE, prev |-> NoOut,
          out |-> NoOut, err |-> MsgNone]

Idle(t) == pc[t] \in {"idle", "done", "failed"}
\* the tasks of S have nothing in progress
Resting(S) == \A t \in S : Idle(t)

\* the handler throws: the route passes the error to errorHandler
Throw(t, id, msg) ==
  /\ pc' = [pc EXCEPT ![t] = "failed"]
  /\ loc' = [loc EXCEPT ![t] = [NoLoc EXCEPT !.id = id, !.err = msg]]
  /\ req' = [req EXCEPT ![t] = NoReq]

\* the handler returns out
Return(t, id, out) ==
  /\ pc' = [pc EXCEPT ![t] = "done"]
  /\ loc' = [loc EXCEPT ![t] = [NoLoc EXCEPT !.id = id, !.out = out]]
  /\ req' = [req EXCEPT ![t] = NoReq]

\* the handler goes on to its next await
Goto(t, label, l) ==
  /\ pc' = [pc EXCEPT ![t] = label]
  /\ loc' = [loc EXCEPT ![t] = l]
  /\ UNCHANGED req

\* the route calls the handler with request r, which runs to its first await
Call(t, r, label, l) ==
  /\ pc' = [pc EXCEPT ![t] = label]
  /\ loc' = [loc EXCEPT ![t] = l]
  /\ req' = [req EXCEPT ![t] = r]

----------------------------------------------------------------------------
(* EmbeddingService.initialize                                             *)

Boot == "boot"
TestText == Text(<<"test">>, 4, 0)

\* await pipeline(...): the load throws, or the model is loaded (isLoaded =
\* true) and the test embedding is requested
initializeLoad ==
  /\ pc[Boot] = "idle" /\ ~isLoaded
  /\ \E loaded \in BOOLEAN :
       IF loaded
         THEN /\ CanEmbed
              /\ LET e == EmbedLookupIn(TRUE, TestText) IN
                 /\ isLoaded' = TRUE
                 /\ cache' = e.cache
                 /\ cacheStats' = e.stats
                 /\ pc' = [pc EXCEPT ![Boot] =
                             IF e.status = "hit" THEN "done" ELSE "init_test"]
         ELSE /\ pc' = pc
              /\ UNCHANGED embVars
  /\ UNCHANGED <<dbVars, nextId, req, loc, monVars, svcVars>>

\* the test embedding returns, or throws and isLoaded is reset
initializeTest(E) ==
  /\ pc[Boot] = "init_test"
  /\ \E o \in E.outcomes :
       LET r == EmbedResult(TestText, o) IN
       /\ cache' = r.cache
       /\ isLoaded' = r.ok
       /\ pc' = [pc EXCEPT ![Boot] = IF r.ok THEN "done" ELSE "idle"]
  /\ UNCHANGED <<dbVars, nextId, cacheStats, req, loc, monVars, svcVars>>

----------------------------------------------------------------------------
(* MemoryService.storeMemory                                               *)

\* validate, resolve the user, generate the id, normalise the entities and
\* call generateEmbedding, up to its first await
StoreBegin(t, u, text, es) ==
  /\ Idle(t) /\ nextId < MaxIds
  /\ CanEmbed \/ ~isLoaded
  /\ LET v  == validateMemoryText(text)
           id == nextId + 1
           e  == EmbedLookup(v.text)
           l  == [NoLoc EXCEPT !.id = id, !.text = v.text,
                               !.ents = normalizeEntities(es)]
           r  == Req("store", extractUserId(u), 0, text, es, TRUE)
       IN
       /\ IF ~v.ok
            THEN /\ Throw(t, 0, v.err)
                 /\ UNCHANGED <<nextId, embVars>>
          ELSE IF ~isLoaded
            THEN /\ Throw(t, id, MsgCannotStore(MsgEmbNotReady))
                 /\ nextId' = id
                 /\ UNCHANGED embVars
          ELSE /\ nextId' = id
               /\ cache' = e.cache
               /\ cacheStats' = e.stats
               /\ UNCHANGED isLoaded
               /\ CASE e.status = "throw" ->
                         Throw(t, id, MsgCannotStore(e.err))
                    [] e.status = "hit" ->
                         IF e.vec.dim # EmbDim
                           THEN Throw(t, id, MsgCannotStore(MsgStoreDim))
                           ELSE Call(t, r, "st_insert", [l EXCEPT !.emb = e.vec])
                    [] OTHER -> Call(t, r, "st_model", l)
  /\ UNCHANGED <<dbVars, monVars, svcVars>>

\* the model call returns
StoreModel(t, E) ==
  /\ pc[t] = "st_model"
  /\ \E o \in E.outcomes :
       LET r == EmbedResult(loc[t].text, o) IN
       /\ cache' = r.cache
       /\ IF ~r.ok THEN Throw(t, loc[t].id, MsgCannotStore(r.err))
          ELSE IF r.vec.dim # EmbDim
            THEN Throw(t, loc[t].id, MsgCannotStore(MsgStoreDim))
          ELSE Goto(t, "st_insert", [loc[t] EXCEPT !.emb = r.vec])
  /\ UNCHANGED <<dbVars, nextId, isLoaded, cacheStats, monVars, svcVars>>

\* INSERT INTO memory (...)
StoreInsert(t, E) ==
  /\ pc[t] = "st_insert"
  /\ \/ \E ts \in Stamps(E) :
          LET row == Row(req[t].user, "user_memory", loc[t].text, loc[t].emb, ts, ts)
          IN  /\ CanInsert(loc[t].id, row)
              /\ memory' = Inserted(loc[t].id, row)
              /\ now' = ts
              /\ IF loc[t].ents = << >>
                   THEN Return(t, loc[t].id,
                               [kind |-> "store", stored |-> TRUE, entities |-> 0])
                   ELSE Goto(t, "st_entity", [loc[t] EXCEPT !.i = 1])
     \/ /\ \/ TRUE \in E.fails
           \/ ~CanInsert(loc[t].id, Row(req[t].user, "user_memory", loc[t].text,
                                        loc[t].emb, now, now))
        /\ Throw(t, loc[t].id, MsgDb)
        /\ UNCHANGED <<memory, now>>
  /\ UNCHANGED <<entities, nextId, embVars, monVars, svcVars>>

\* what the entity loop does after an insert: catch (error) { logger.error }
\* swallows a failure, and the loop goes on or the handler returns
AfterEntity_Rethrow(failed, last) ==
  IF failed THEN "throw" ELSE IF last THEN "return" ELSE "next"

AfterEntity(failed, last) == IF last THEN "return" ELSE "next"

\* one turn of the entity loop: the insert succeeds, or fails and is logged
StoreEntity(t, E) ==
  /\ pc[t] = "st_entity"
  /\ \E fail \in E.fails :
       /\ entities' = IF fail THEN entities
                      ELSE EntInserted(loc[t].id, loc[t].ents[loc[t].i].value)
       /\ CASE AfterEntity(fail, loc[t].i = Len(loc[t].ents)) = "throw" ->
                 Throw(t, loc[t].id, MsgDb)
            [] AfterEntity(fail, loc[t].i = Len(loc[t].ents)) = "return" ->
                 Return(t, loc[t].id, [kind |-> "store", stored |-> TRUE,
                                       entities |-> Len(loc[t].ents)])
            [] OTHER -> Goto(t, "st_entity", [loc[t] EXCEPT !.i = @ + 1])
  /\ UNCHANGED <<memory, now, nextId, embVars, monVars, svcVars>>

----------------------------------------------------------------------------
(* MemoryService.updateMemory                                              *)

UpdateBegin(t, u, id, text, es, hasEnts) ==
  /\ Idle(t)
  /\ hasEnts \/ es = << >>
  /\ Call(t, Req("update", extractUserId(u), id, text, es, hasEnts),
          "up_select", [NoLoc EXCEPT !.id = id])
  /\ UNCHANGED <<dbVars, nextId, embVars, monVars, svcVars>>

\* if (updates.text) { validateMemoryText(updates.text); regenerateEmbedding = true }
RegenerateEmbedding_IfChanged(updates, current) ==
  Truthy(updates.text) /\ Trim(updates.text) # current.text

RegenerateEmbedding(updates, current) == Truthy(updates.text)

\* SELECT the current row; then validate the new text and, if the embedding
\* is to be regenerated, call generateEmbedding up to its first await
UpdateSelect(t) ==
  /\ pc[t] = "up_select"
  /\ LET r   == req[t]
         hit == SelectMemory(r.id, r.user)
     IN
     IF hit = {}
       THEN /\ Throw(t, r.id, MsgUpdNotFound)
            /\ UNCHANGED embVars
     ELSE LET cur == memory[r.id]
              v   == validateMemoryText(r.text)
              l   == [loc[t] EXCEPT !.cur = cur]
          IN
          IF Truthy(r.text) /\ ~v.ok
            THEN /\ Throw(t, r.id, v.err)
                 /\ UNCHANGED embVars
          ELSE IF ~RegenerateEmbedding(r, cur)
            THEN /\ Goto(t, "up_delete", l)
                 /\ UNCHANGED embVars
          ELSE /\ CanEmbed \/ ~isLoaded
               /\ LET e == EmbedLookup(r.text) IN
                  /\ cache' = e.cache
                  /\ cacheStats' = e.stats
                  /\ UNCHANGED isLoaded
                  /\ CASE e.status = "throw" -> Throw(t, r.id, e.err)
                       [] e.status = "hit" ->
                            Goto(t, "up_delete",
                                 [l EXCEPT !.emb = e.vec, !.regen = TRUE])
                       [] OTHER -> Goto(t, "up_model", [l EXCEPT !.regen = TRUE])
  /\ UNCHANGED <<dbVars, nextId, monVars, svcVars>>

UpdateModel(t, E) ==
  /\ pc[t] = "up_model"
  /\ \E o \in E.outcomes :
       LET r == EmbedResult(req[t].text, o) IN
       /\ cache' = r.cache
       /\ IF r.ok THEN Goto(t, "up_delete", [loc[t] EXCEPT !.emb = r.vec])
          ELSE Throw(t, req[t].id, r.err)
  /\ UNCHANGED <<dbVars, nextId, isLoaded, cacheStats, monVars, svcVars>>

\* DELETE FROM memory WHERE id = .. AND user_id = ..
UpdateDelete(t, E) ==
  /\ pc[t] = "up_delete"
  /\ \/ /\ memory' = DeletedMemory(req[t].id, req[t].user)
        /\ Goto(t, "up_insert", loc[t])
     \/ /\ TRUE \in E.fails
        /\ Throw(t, req[t].id, MsgDb)
        /\ UNCHANGED memory
  /\ UNCHANGED <<entities, now, nextId, embVars, monVars, svcVars>>

\* the row updateMemory inserts in place of the deleted one
UpdatedRow(r, l, ts) ==
  Row(r.user,
      IF l.cur.type # "" THEN l.cur.type ELSE "user_memory",
      IF Truthy(r.text) THEN validateMemoryText(r.text).text ELSE l.cur.text,
      IF l.emb # NoVec THEN l.emb ELSE l.cur.emb,
      IsoSeconds(l.cur.createdAt),
      ts)

UpdateOut(l) == [kind |-> "update", updated |-> TRUE, embedding |-> l.regen]

\* INSERT INTO memory (...) with the old created_at and CURRENT_TIMESTAMP
UpdateInsert(t, E) ==
  /\ pc[t] = "up_insert"
  /\ \/ \E ts \in Stamps(E) :
          LET row == UpdatedRow(req[t], loc[t], ts) IN
          /\ CanInsert(req[t].id, row)
          /\ memory' = Inserted(req[t].id, row)
          /\ now' = ts
          /\ IF req[t].hasEnts
               THEN Goto(t, "up_entdelete", loc[t])
               ELSE Return(t, req[t].id, UpdateOut(loc[t]))
     \/ /\ \/ TRUE \in E.fails
           \/ ~CanInsert(req[t].id, UpdatedRow(req[t], loc[t], now))
        /\ Throw(t, req[t].id, MsgDb)
        /\ UNCHANGED <<memory, now>>
  /\ UNCHANGED <<entities, nextId, embVars, monVars, svcVars>>

\* if (updates.entities): DELETE FROM memory_entities WHERE memory_id = ..
UpdateEntDelete(t, E) ==
  /\ pc[t] = "up_entdelete"
  /\ \/ LET es == normalizeEntities(req[t].ents) IN
        /\ entities' = EntDeleted(req[t].id)
        /\ IF es = << >>
             THEN Return(t, req[t].id, UpdateOut(loc[t]))
             ELSE Goto(t, "up_entity", [loc[t] EXCEPT !.ents = es, !.i = 1])
     \/ /\ TRUE \in E.fails
        /\ Throw(t, req[t].id, MsgDb)
        /\ UNCHANGED entities
  /\ UNCHANGED <<memory, now, nextId, embVars, monVars, svcVars>>

\* one turn of the entity loop; a failing insert is not caught here
UpdateEntity(t, E) ==
  /\ pc[t] = "up_entity"
  /\ \/ /\ entities' = EntInserted(req[t].id, loc[t].ents[loc[t].i].value)
        /\ IF loc[t].i = Len(loc[t].ents)
             THEN Return(t, req[t].id, UpdateOut(loc[t]))
             ELSE Goto(t, "up_entity", [loc[t] EXCEPT !.i = @ + 1])
     \/ /\ TRUE \in E.fails
        /\ Throw(t, req[t].id, MsgDb)
        /\ UNCHANGED entities
  /\ UNCHANGED <<memory, now, nextId, embVars, monVars, svcVars>>

----------------------------------------------------------------------------
(* MemoryService.deleteMemory                                              *)

\* the client's view: the request repeats the Delete it has just completed
\* (prev is what that one returned)
Repeats(t, r) == pc[t] = "done" /\ req[t] = r

DeleteBegin(t, u, id) ==
  /\ Idle(t)
  /\ LET r == Req("delete", extractUserId(u), id, NoText, << >>, FALSE) IN
     Call(t, r, "del_entities",
          [NoLoc EXCEPT !.id = id,
                        !.prev = IF Repeats(t, r) THEN loc[t].out ELSE NoOut])
  /\ UNCHANGED <<dbVars, nextId, embVars, monVars, svcVars>>

\* DELETE FROM memory_entities WHERE memory_id = .. (total: the rows it removed)
DeleteEntities(t, E) ==
  /\ pc[t] = "del_entities"
  /\ \/ /\ entities' = EntDeleted(req[t].id)
        /\ Goto(t, "del_memory",
                [loc[t] EXCEPT !.total = BagCardinality(SelectEntities(req[t].id))])
     \/ /\ TRUE \in E.fails
        /\ Throw(t, req[t].id, MsgDb)
        /\ UNCHANGED entities
  /\ UNCHANGED <<memory, now, nextId, embVars, monVars, svcVars>>

\* DELETE FROM memory WHERE id = .. AND user_id = ..; the handler returns
\* deleted: true whatever the statement removed (changes, which it does not read)
DeleteMemory(t, E) ==
  /\ pc[t] = "del_memory"
  /\ \/ /\ memory' = DeletedMemory(req[t].id, req[t].user)
        /\ pc' = [pc EXCEPT ![t] = "done"]
        /\ loc' = [loc EXCEPT ![t] =
                     [NoLoc EXCEPT
                        !.id = req[t].id,
                        !.prev = loc[t].prev,
                        !.out = [kind |-> "delete", deleted |-> TRUE,
                                 changes |-> Cardinality(SelectMemory(req[t].id,
                                                                      req[t].user))]]]
        /\ UNCHANGED req
     \/ /\ TRUE \in E.fails
        /\ Throw(t, req[t].id, MsgDb)
        /\ UNCHANGED memory
  /\ UNCHANGED <<entities, now, nextId, embVars, monVars, svcVars>>

----------------------------------------------------------------------------
(* MemoryService.retrieveMemory                                            *)

RetrieveBegin(t, u, id) ==
  /\ Idle(t)
  /\ Call(t, Req("retrieve", extractUserId(u), id, NoText, << >>, FALSE),
          "ret_select", [NoLoc EXCEPT !.id = id])
  /\ UNCHANGED <<dbVars, nextId, embVars, monVars, svcVars>>

\* SELECT * FROM memory WHERE id = .. AND user_id = ..
RetrieveSelect(t) ==
  /\ pc[t] = "ret_select"
  /\ IF SelectMemory(req[t].id, req[t].user) = {}
       THEN Throw(t, req[t].id, MsgNotFound)
       ELSE Goto(t, "ret_entities", [loc[t] EXCEPT !.cur = memory[req[t].id]])
  /\ UNCHANGED <<dbVars, nextId, embVars, monVars, svcVars>>

\* SELECT .. FROM memory_entities WHERE memory_id = ..; build the result
RetrieveEntities(t) ==
  /\ pc[t] = "ret_entities"
  /\ Return(t, req[t].id,
            [kind |-> "retrieve", id |-> req[t].id, text |-> loc[t].cur.text,
             entities |-> SelectEntities(req[t].id),
             created_at |-> loc[t].cur.createdAt,
             updated_at |-> loc[t].cur.updatedAt])
  /\ UNCHANGED <<dbVars, nextId, embVars, monVars, svcVars>>

----------------------------------------------------------------------------
(* MemoryService.listMemories                                              *)

DefaultLimit == 25

ListInputs == {NoOpts, Opts(1, 1, "updated_at", "ASC", "user_memory", 0, 0)}

SortKey(id, sortBy) ==
  IF sortBy = "updated_at" THEN memory[id].updatedAt ELSE memory[id].createdAt

\* the sequences that list the set S in the order of ORDER BY: ascending in
\* rank (a function on S), ties in any order
Ordered(S, rank) ==
  {q \in [1..Cardinality(S) -> S] :
     /\ \A i, j \in 1..Cardinality(S) : i # j => q[i] # q[j]
     /\ \A i, j \in 1..Cardinality(S) : i < j => ~(rank[q[j]] < rank[q[i]])}

\* LIMIT n OFFSET k
Page(q, limit, offset) ==
  SubSeq(q, offset + 1, Min(Len(q), offset + limit))

\* WHERE user_id = .. [AND type = ..]
ListWhere_AnyUser(user, type) ==
  {i \in DOMAIN memory : type = "" \/ memory[i].type = type}

ListWhere(user, type) ==
  {i \in DOMAIN memory :
     memory[i].user = user /\ (type = "" \/ memory[i].type = type)}

ListBegin(t, u, o) ==
  /\ Idle(t)
  /\ Call(t, [Req("list", extractUserId(u), 0, NoText, << >>, FALSE)
                EXCEPT !.opts = o],
          "ls_count", NoLoc)
  /\ UNCHANGED <<dbVars, nextId, embVars, monVars, svcVars>>

\* SELECT COUNT(*) as total FROM memory WHERE ..
ListCount(t) ==
  /\ pc[t] = "ls_count"
  /\ Goto(t, "ls_select",
          [loc[t] EXCEPT !.total =
             Cardinality(ListWhere(req[t].user, req[t].opts.type))])
  /\ UNCHANGED <<dbVars, nextId, embVars, monVars, svcVars>>

ListOut(t, mems) ==
  LET o == req[t].opts
      limit == IF o.limit = 0 THEN DefaultLimit ELSE o.limit
  IN  [kind |-> "list", memories |-> mems, total |-> loc[t].total,
       hasMore |-> o.offset + limit < loc[t].total]

\* SELECT id, source_text, .. ORDER BY .. LIMIT .. OFFSET ..
ListSelect(t) ==
  /\ pc[t] = "ls_select"
  /\ LET o == req[t].opts
         limit == IF o.limit = 0 THEN DefaultLimit ELSE o.limit
         S == ListWhere(req[t].user, o.type)
         rank == [a \in S |->
                    IF o.sortOrder = "ASC" THEN SortKey(a, o.sortBy)
                    ELSE 0 - SortKey(a, o.sortBy)]
     IN  \E q \in Ordered(S, rank) :
           LET page == Page(q, limit, o.offset)
               rows == [k \in 1..Len(page) |->
                          [id |-> page[k], text |-> memory[page[k]].text,
                           similarity |-> 0, entities |-> EmptyBag]]
           IN  IF rows = << >>
                 THEN Return(t, 0, ListOut(t, << >>))
                 ELSE Goto(t, "ls_entities", [loc[t] EXCEPT !.rows = rows])
  /\ UNCHANGED <<dbVars, nextId, embVars, monVars, svcVars>>

\* Promise.all over the rows: one entity query per row, run one by one
WithEntities(rows, k) ==
  [rows EXCEPT ![k].entities = SelectEntities(rows[k].id)]

ListEntities(t) ==
  /\ pc[t] = "ls_entities"
  /\ LET n == loc[t].i + 1
         rows == WithEntities(loc[t].rows, n)
     IN  IF n = Len(rows)
           THEN Return(t, 0, ListOut(t, rows))
           ELSE Goto(t, "ls_entities", [loc[t] EXCEPT !.rows = rows, !.i = n])
  /\ UNCHANGED <<dbVars, nextId, embVars, monVars, svcVars>>

----------------------------------------------------------------------------
(* MemoryService.searchMemories                                            *)

DefaultMinSimilarity == 30
DefaultMaxAgeDays == 30
DayMs == 86400000

\* 1 - array_cosine_distance(a, b), in hundredths: 1 for the same vector,
\* less for vectors of different inputs, least for unrelated inputs
Similarity(a, b) ==
  IF a.src = b.src /\ a.via = b.via THEN 100
  ELSE IF a.src.core = b.src.core THEN 60
  ELSE 20

\* created_at >= CURRENT_TIMESTAMP - INTERVAL 'days' DAY
WithinDays(createdAt, ts, days) ==
  LET age == ts - createdAt
  IN  age \div DayMs < days \/ (age \div DayMs = days /\ age % DayMs = 0)

SearchInputs == {NoOpts, Opts(1, 0, "", "", "", 70, 1)}
\* and with a minimum similarity below the default
FindInputs == SearchInputs \cup {Opts(0, 0, "", "", "", 10, 0)}

\* WHERE user_id = .. AND created_at >= .. [AND type = ..] AND embedding IS NOT NULL
SearchWhere_AnyUser(user, type, days, ts) ==
  {i \in DOMAIN memory :
     /\ WithinDays(memory[i].createdAt, ts, days)
     /\ (type = "" \/ memory[i].type = type)
     /\ memory[i].emb # NoVec}

SearchWhere(user, type, days, ts) ==
  {i \in DOMAIN memory :
     /\ memory[i].user = user
     /\ WithinDays(memory[i].createdAt, ts, days)
     /\ (type = "" \/ memory[i].type = type)
     /\ memory[i].emb # NoVec}

MsgCannotSearch(inner) == <<"Cannot search without query ", "embedding", ": ">> \o inner

SearchBegin(t, u, q, o) ==
  /\ Idle(t)
  /\ CanQuery \/ ~isLoaded
  /\ LET e == EmbedLookup(q)
           r == [Req("search", extractUserId(u), 0, q, << >>, FALSE)
                   EXCEPT !.opts = o]
       IN
       /\ IF ~isLoaded
            THEN /\ Throw(t, 0, MsgCannotSearch(MsgEmbNotReady))
                 /\ UNCHANGED embVars
            ELSE /\ cache' = e.cache
                 /\ cacheStats' = e.stats
                 /\ UNCHANGED isLoaded
                 /\ CASE e.status = "throw" -> Throw(t, 0, MsgCannotSearch(e.err))
                      [] e.status = "hit"   ->
                           Call(t, r, "sr_select", [NoLoc EXCEPT !.emb = e.vec])
                      [] OTHER              -> Call(t, r, "sr_model", NoLoc)
  /\ UNCHANGED <<dbVars, nextId, monVars, svcVars>>

\* await this.embedder(text, ..) returns for the query
SearchModel(t, E) ==
  /\ pc[t] = "sr_model"
  /\ \E o \in E.outcomes :
       LET e == EmbedResult(req[t].text, o) IN
       /\ cache' = e.cache
       /\ IF e.ok
            THEN Goto(t, "sr_select", [loc[t] EXCEPT !.emb = e.vec])
            ELSE Throw(t, 0, MsgCannotSearch(e.err))
  /\ UNCHANGED <<dbVars, nextId, isLoaded, cacheStats, monVars, svcVars>>

SearchOut(rows) == [kind |-> "search", results |-> rows, total |-> Len(rows)]

FilterSimilar_All(rows, min) == rows

\* results.filter(r => r.similarity >= minSimilarity)
RECURSIVE FilterSimilar(_, _)
FilterSimilar(rows, min) ==
  IF rows = << >> THEN << >>
  ELSE IF Head(rows).similarity >= min
    THEN <<Head(rows)>> \o FilterSimilar(Tail(rows), min)
    ELSE FilterSimilar(Tail(rows), min)

\* SELECT .., (1 - array_cosine_distance(..)) as similarity .. ORDER BY
\* array_cosine_distance(..) LIMIT .. OFFSET .., then the similarity filter
SearchSelect(t, E) ==
  /\ pc[t] = "sr_select"
  /\ \E ts \in Stamps(E) :
       /\ now' = ts
       /\ LET o == req[t].opts
              limit == IF o.limit = 0 THEN DefaultLimit ELSE o.limit
              min == IF o.minSimilarity = 0 THEN DefaultMinSimilarity
                     ELSE o.minSimilarity
              days == IF o.maxAgeDays = 0 THEN DefaultMaxAgeDays ELSE o.maxAgeDays
              S == SearchWhere(req[t].user, o.type, days, ts)
              sim(i) == Similarity(memory[i].emb, loc[t].emb)
              rank == [a \in S |-> 0 - sim(a)]
          IN  \E q \in Ordered(S, rank) :
                LET page == Page(q, limit, o.offset)
                    rows == [k \in 1..Len(page) |->
                               [id |-> page[k], text |-> memory[page[k]].text,
                                similarity |-> sim(page[k]),
                                entities |-> EmptyBag]]
                    kept == FilterSimilar(rows, min)
                IN  IF kept = << >>
                      THEN Goto(t, "sr_debug", [loc[t] EXCEPT !.rows = kept])
                      ELSE Goto(t, "sr_entities", [loc[t] EXCEPT !.rows = kept])
  /\ UNCHANGED <<memory, entities, nextId, embVars, monVars, svcVars>>

\* no result: the diagnostic queries (counts and best match), logged only
SearchDebug(t) ==
  /\ pc[t] = "sr_debug"
  /\ Return(t, 0, SearchOut(<< >>))
  /\ UNCHANGED <<dbVars, nextId, embVars, monVars, svcVars>>

SearchEntities(t) ==
  /\ pc[t] = "sr_entities"
  /\ LET n == loc[t].i + 1
         rows == WithEntities(loc[t].rows, n)
     IN  IF n = Len(rows)
           THEN Return(t, 0, SearchOut(rows))
           ELSE Goto(t, "sr_entities", [loc[t] EXCEPT !.rows = rows, !.i = n])
  /\ UNCHANGED <<dbVars, nextId, embVars, monVars, svcVars>>

----------------------------------------------------------------------------
(* The screen monitor: MonitorService, ScreenCaptureService, OCRService    *)

\* ticks the monitor counts before the model stops starting new ones: when
\* they run one after the other, and when the timer fires into a running tick
MaxTicks == 2
MaxOverlap == 3

MonitorUser == "local_user"
DiffThreshold == 15

Windows == {Win("Code", "a.js"), Win("Chrome", "news")}
\* screenshots, and pixelmatch's ratio of differing pixels (in hundredths)
Screens == {"s1", "s2", "s3"}
DiffRatio(a, b) ==
  IF a = b THEN 0
  ELSE IF {a, b} = {"s1", "s2"} THEN DiffThreshold
  ELSE IF {a, b} = {"s2", "s3"} THEN DiffThreshold + 1
  ELSE 100
\* what recognition returns after the clean-up ('' when it fails)
OcrTexts == {Text(<<"o1">>, 12, 0), Text(<<"o2">>, 3000, 0),
             Text(<<"o3">>, MinOcrLen - 1, 0), NoText}
\* crypto.createHash('sha256').update(text).digest('hex')
NoHash == <<"null">>
Sha256(t) == <<"sha256", t>>
\* what extractText returned: whether recognition succeeded, the text, and
\* whether the recognition before it had succeeded with the same text
OcrResult(ok, text, before) ==
  [any |-> TRUE, ok |-> ok, text |-> text,
   same |-> before.any /\ before.ok /\ ok /\ before.text = text]
NoOcr == [any |-> FALSE, ok |-> FALSE, text |-> NoText, same |-> FALSE]

TicksInFlight == {k \in Ticks : ~Idle(k)}
TicksCounted == mon.captureCount + mon.skipCount + mon.errorCount

\* The world the monitor watches: the windows that can be active, the
\* screenshots that can be taken, the texts recognition can return, and the
\* number of ticks after which the timer stops firing.
World(windows, screens, texts, ticks) ==
  [windows |-> windows, screens |-> screens, texts |-> texts, ticks |-> ticks]

CanTick(W) == TicksCounted + Cardinality(TicksInFlight) < W.ticks

Starter == "start"
Stopper == "stop"

\* tick() returns: to start(), which then sets the interval, or to the
\* timer callback, which attaches .catch
TickReturn(k, m) ==
  LET toStart == m.caller[k] = Starter IN
  /\ pc' = [pc EXCEPT ![k] = "done",
                      ![Starter] = IF toStart THEN "done" ELSE @]
  /\ loc' = [loc EXCEPT ![k] = NoLoc]
  /\ mon' = [m EXCEPT !.caller[k] = "none",
                      !.intervalId = IF toStart THEN TRUE ELSE @]

Skip(k) == TickReturn(k, [mon EXCEPT !.skipCount = @ + 1])
Fail(k) == TickReturn(k, [mon EXCEPT !.errorCount = @ + 1])

\* the monitor after a tick that found the system idle
IdleTick_Seen(m, w) ==
  [m EXCEPT !.skipCount = @ + 1, !.lastAppName = w.appName,
            !.lastWindowTitle = w.windowTitle]

IdleTick(m, w) == [m EXCEPT !.skipCount = @ + 1]

\* tick() up to its first await: idle check, active window, title change
TickEnter(k, caller, m, W) ==
  \E idle \in BOOLEAN, w \in W.windows :
    IF idle
      THEN TickReturn(k, IdleTick([m EXCEPT !.caller[k] = caller], w))
      ELSE /\ mon' = [m EXCEPT !.caller[k] = caller, !.lastAppName = w.appName,
                               !.lastWindowTitle = w.windowTitle]
           /\ pc' = [pc EXCEPT ![k] = "tk_capture",
                               ![Starter] = IF caller = Starter THEN "ms_tick" ELSE @]
           /\ loc' = [loc EXCEPT ![k] =
                        [NoLoc EXCEPT !.win = w,
                                      !.titleChanged =
                                         (w.appName # m.lastAppName
                                          \/ w.windowTitle # m.lastWindowTitle)]]

\* setInterval's callback runs: this.tick().catch(..)
TimerFire(k, W) ==
  /\ mon.intervalId /\ Idle(k) /\ CanTick(W)
  /\ TickEnter(k, "timer", mon, W)
  /\ UNCHANGED <<dbVars, nextId, embVars, req, shot, ocr, svcVars>>

\* screenshot({format: 'png'}) returns a buffer, or fails (capture gives
\* null); with a buffer computeDiff starts and awaits parsePNG
TickCapture(k, W) ==
  /\ pc[k] = "tk_capture"
  /\ \/ /\ Skip(k)
        /\ UNCHANGED shot
     \/ \E b \in W.screens :
          /\ shot' = IF shot.lastScreenshotBuffer = NoShot
                       THEN [shot EXCEPT !.lastScreenshotBuffer = b]
                       ELSE shot
          /\ Goto(k, "tk_diff",
                  [loc[k] EXCEPT !.shot = b,
                                 !.first = (shot.lastScreenshotBuffer = NoShot)])
          /\ UNCHANGED mon
  /\ UNCHANGED <<dbVars, nextId, embVars, req, ocr, svcVars>>

\* parsePNG resolves: computeDiff returns the ratio and moves the baseline
\* (a baseline whose PNG is not parsed yet makes the comparison throw,
\* which computeDiff answers with 1.0)
computeDiff(first, b) ==
  IF first \/ shot.lastScreenshotPNG = NoShot THEN 100
  ELSE DiffRatio(shot.lastScreenshotPNG, b)

\* captureIfChanged: const changed = diffRatio > this.diffThreshold
changed_AtThreshold(ratio) == ratio >= DiffThreshold

changed(ratio) == ratio > DiffThreshold

TickDiff(k) ==
  /\ pc[k] = "tk_diff"
  /\ LET b == loc[k].shot
         ratio == computeDiff(loc[k].first, b)
     IN  /\ shot' = [lastScreenshotBuffer |-> b, lastScreenshotPNG |-> b]
         /\ IF ~loc[k].titleChanged /\ ~changed(ratio)
              THEN Skip(k)
              ELSE /\ Goto(k, IF ocr.isInitialized THEN "tk_ocr" ELSE "tk_ocrinit",
                           loc[k])
                   /\ UNCHANGED mon
  /\ UNCHANGED <<dbVars, nextId, embVars, req, ocr, svcVars>>

\* extractText found the worker gone: Tesseract.createWorker resolves or rejects
TickOcrInit(k) ==
  /\ pc[k] = "tk_ocrinit"
  /\ \/ /\ ocr' = [ocr EXCEPT !.isInitialized = TRUE]
        /\ Goto(k, "tk_ocr", loc[k])
        /\ UNCHANGED mon
     \/ /\ Fail(k)
        /\ UNCHANGED ocr
  /\ UNCHANGED <<dbVars, nextId, embVars, req, shot, svcVars>>

\* lengths of the strings the capture text is built from
Chars(str) ==
  CASE str = "Code" -> 4 [] str = "a.js" -> 4 [] str = "Chrome" -> 6
    [] str = "news" -> 4 [] OTHER -> 0

\* `${appName}: ${windowTitle}\n${ocrResult.text}`.substring(0, 2000)
CaptureText(w, text) ==
  Substring(Text(<<w.appName, ": ", w.windowTitle, "\n">> \o text.core,
                 Chars(w.appName) + 2 + Chars(w.windowTitle) + 1 + text.n, 0),
            CaptureTextLen)

\* storeCapture up to its first await: the id, the text, and generateEmbedding
\* up to the model call (m is the monitor as the caller leaves it)
storeCapture(k, w, text, m) ==
  LET id == nextId + 1
      et == CaptureText(w, text)
      e  == EmbedLookup(et)
      l  == [NoLoc EXCEPT !.id = id, !.text = et, !.win = w]
  IN  /\ nextId < MaxIds
      /\ CanEmbed \/ ~isLoaded
      /\ nextId' = id
      /\ cache' = e.cache
      /\ cacheStats' = e.stats
      /\ UNCHANGED isLoaded
      /\ CASE e.status = "throw" -> TickReturn(k, [m EXCEPT !.errorCount = @ + 1])
           [] e.status = "hit"   -> /\ Goto(k, "cap_insert", [l EXCEPT !.emb = e.vec])
                                    /\ mon' = m
           [] OTHER              -> /\ Goto(k, "cap_model", l)
                                    /\ mon' = m

\* extractText: the cleaned text of the recognition, '' when it failed
\* (worker.recognize rejects, or the worker is gone)
extractText(ok, recognised) == IF ok THEN recognised ELSE NoText

\* checkTextChanged: compares the hash with the last one, which it replaces
checkTextChanged_Always(text) ==
  [isDifferent |-> TRUE, hash |-> Sha256(text)]

checkTextChanged(text) ==
  [isDifferent |-> Sha256(text) # ocr.lastTextHash, hash |-> Sha256(text)]

\* worker.recognize resolves or rejects: the length gate, the hash gate
\* (checkTextChanged always replaces lastTextHash), then storeCapture
TickOcr(k, W) ==
  /\ pc[k] = "tk_ocr"
  /\ \E recognised \in W.texts, ok \in BOOLEAN :
       LET text == extractText(ok, recognised)
           r    == OcrResult(ok, text, ocr.last)
       IN
       IF ~Truthy(text) \/ TextLen(text) < MinOcrLen
         THEN /\ Skip(k)
              /\ ocr' = [ocr EXCEPT !.last = r]
              /\ UNCHANGED <<nextId, embVars>>
         ELSE /\ ocr' = [ocr EXCEPT !.lastTextHash = checkTextChanged(text).hash,
                                    !.last = r]
              /\ IF ~checkTextChanged(text).isDifferent
                   THEN /\ Skip(k)
                        /\ UNCHANGED <<nextId, embVars>>
                   ELSE storeCapture(k, loc[k].win, text, mon)
  /\ UNCHANGED <<dbVars, req, shot, svcVars>>

\* a tick whose steps 1 to 5 let it through (TimerFire .. TickOcr) calls
\* storeCapture with the window and the text it found
TickStore(k, w, text) ==
  /\ Idle(k)
  /\ Truthy(text) /\ TextLen(text) >= MinOcrLen
  /\ storeCapture(k, w, text, [mon EXCEPT !.caller[k] = "timer"])
  /\ UNCHANGED <<dbVars, req, shot, ocr, svcVars>>

\* await this.embedder(..) returns for the capture
CaptureModel(k, E) ==
  /\ pc[k] = "cap_model"
  /\ \E o \in E.outcomes :
       LET e == EmbedResult(loc[k].text, o) IN
       /\ cache' = e.cache
       /\ IF e.ok
            THEN /\ Goto(k, "cap_insert", [loc[k] EXCEPT !.emb = e.vec])
                 /\ UNCHANGED mon
            ELSE Fail(k)
  /\ UNCHANGED <<dbVars, nextId, isLoaded, cacheStats, req, shot, ocr, svcVars>>

\* INSERT INTO memory (.. 'screen_capture' ..)
CaptureInsert(k, E) ==
  /\ pc[k] = "cap_insert"
  /\ \/ \E ts \in Stamps(E) :
          LET row == Row(MonitorUser, "screen_capture", loc[k].text, loc[k].emb,
                         ts, ts)
          IN  /\ CanInsert(loc[k].id, row)
              /\ memory' = Inserted(loc[k].id, row)
              /\ now' = ts
              /\ Goto(k, "cap_entity", [loc[k] EXCEPT !.i = 1])
              /\ UNCHANGED mon
     \/ /\ \/ TRUE \in E.fails
           \/ ~CanInsert(loc[k].id, Row(MonitorUser, "screen_capture", loc[k].text,
                                        loc[k].emb, now, now))
        /\ Fail(k)
        /\ UNCHANGED <<memory, now>>
  /\ UNCHANGED <<entities, nextId, embVars, req, shot, ocr, svcVars>>

\* the entities of a capture: the application, then the window title
CaptureEntities(w) ==
  <<Ent("application", w.appName), Ent("window", w.windowTitle)>>

\* one turn of the entity loop of storeCapture (no try/catch around it)
CaptureEntity(k, E) ==
  /\ pc[k] = "cap_entity"
  /\ LET es == CaptureEntities(loc[k].win)
         i  == loc[k].i
     IN  \/ /\ entities' = EntInserted(loc[k].id, es[i])
            /\ IF i = Len(es)
                 THEN TickReturn(k, [mon EXCEPT !.captureCount = @ + 1])
                 ELSE /\ Goto(k, "cap_entity", [loc[k] EXCEPT !.i = i + 1])
                      /\ UNCHANGED mon
         \/ /\ TRUE \in E.fails
            /\ Fail(k)
            /\ UNCHANGED entities
  /\ UNCHANGED <<memory, now, nextId, embVars, req, shot, ocr, svcVars>>

\* MonitorService.start up to its first await
StartBegin ==
  /\ pc[Starter] = "idle"
  /\ pc' = [pc EXCEPT ![Starter] = IF mon.isRunning THEN "done" ELSE "ms_init"]
  /\ UNCHANGED <<dbVars, nextId, embVars, req, loc, monVars, svcVars>>

\* ocr.initialize() resolves or rejects; then isRunning and the first tick
StartInit(k, W) ==
  /\ pc[Starter] = "ms_init" /\ Idle(k) /\ CanTick(W)
  /\ \/ /\ ocr' = [ocr EXCEPT !.isInitialized = TRUE]
        /\ TickEnter(k, Starter, [mon EXCEPT !.isRunning = TRUE], W)
     \/ /\ pc' = [pc EXCEPT ![Starter] = "failed"]
        /\ UNCHANGED <<ocr, mon, loc>>
  /\ UNCHANGED <<dbVars, nextId, embVars, req, shot, svcVars>>

\* MonitorService.stop up to its await of ocr.terminate()
StopBegin ==
  /\ Idle(Stopper)
  /\ IF ~mon.isRunning
       THEN /\ pc' = [pc EXCEPT ![Stopper] = "done"]
            /\ UNCHANGED mon
       ELSE /\ mon' = [mon EXCEPT !.isRunning = FALSE, !.intervalId = FALSE]
            /\ pc' = [pc EXCEPT ![Stopper] =
                        IF ocr.isInitialized THEN "mx_terminate" ELSE "done"]
  /\ UNCHANGED <<dbVars, nextId, embVars, req, loc, shot, ocr, svcVars>>

\* worker.terminate() resolves
StopTerminate ==
  /\ pc[Stopper] = "mx_terminate"
  /\ ocr' = [ocr EXCEPT !.isInitialized = FALSE]
  /\ pc' = [pc EXCEPT ![Stopper] = "done"]
  /\ UNCHANGED <<dbVars, nextId, embVars, req, loc, mon, shot, svcVars>>

----------------------------------------------------------------------------
(* The HTTP front: the middleware chain of the app and the routes          *)

\* a request body without payload, and a payload by the fields the routes read
\* (memoryId 0 and NoText: the field is missing; updates: missing, or a
\* text with entities)
NoPayload == [none |-> TRUE]
Payload(text, query, memoryId, ents, updates) ==
  [text |-> text, query |-> query, memoryId |-> memoryId,
   entities |-> ents, updates |-> updates]
NoUpdates == [none |-> TRUE]
Updates(text, ents) == [text |-> text, entities |-> ents]

\* a request: whether content-length exceeds 1 MiB, the authorization header
\* ("" none, else the token), the envelope and the route's path
HttpReq(big, auth, version, service, action, payload, path) ==
  [big |-> big, auth |-> auth, version |-> version, service |-> service,
   action |-> action, payload |-> payload, path |-> path]

API_KEYS == {"key1"}

\* what a middleware does: it answers, or it calls next()
Answer(status, code) == [status |-> status, code |-> code]
NextMw == Answer(0, "")

validatePayloadSize(h) ==
  IF h.big THEN Answer(413, "PAYLOAD_TOO_LARGE") ELSE NextMw

authMiddleware(h) ==
  IF h.auth = "" THEN Answer(401, "UNAUTHORIZED")
  ELSE IF h.auth \notin API_KEYS THEN Answer(401, "UNAUTHORIZED")
  ELSE NextMw

validateMCPRequest(h) ==
  IF h.version # "mcp.v1" THEN Answer(400, "INVALID_REQUEST")
  ELSE IF h.service # "user-memory" THEN Answer(400, "INVALID_REQUEST")
  ELSE IF h.action = "" THEN Answer(400, "INVALID_REQUEST")
  ELSE IF h.payload = NoPayload THEN Answer(400, "INVALID_REQUEST")
  ELSE NextMw

\* app.use in the order of registration: the first middleware that answers
Middleware_AuthLast(h) ==
  IF validatePayloadSize(h) # NextMw THEN validatePayloadSize(h)
  ELSE IF validateMCPRequest(h) # NextMw THEN validateMCPRequest(h)
  ELSE authMiddleware(h)

Middleware(h) ==
  IF validatePayloadSize(h) # NextMw THEN validatePayloadSize(h)
  ELSE IF authMiddleware(h) # NextMw THEN authMiddleware(h)
  ELSE validateMCPRequest(h)

MsgMissing(field) == <<"Missing required field: ", field>>

\* a request arrives: the middleware chain, then the route of its path, which
\* checks the payload and calls the service up to its first await (an answer
\* of the middleware is kept with two facts about the request it answers:
\* whether it was oversize and whether its envelope was well-formed)
Receive(t, h) ==
  /\ Idle(t)
  /\ LET m == Middleware(h)
         p == h.payload
     IN
     IF m # NextMw
       THEN /\ Return(t, 0, [kind |-> "rejected", status |-> m.status,
                             code |-> m.code, big |-> h.big,
                             shaped |-> validateMCPRequest(h) = NextMw])
            /\ UNCHANGED <<dbVars, nextId, embVars, monVars, svcVars>>
     ELSE CASE h.path = "/memory.store" ->
                 StoreBegin(t, NoUser, p.text, p.entities)
            [] h.path = "/memory.search" ->
                 IF ~Truthy(p.query)
                   THEN /\ Throw(t, 0, MsgMissing("query"))
                        /\ UNCHANGED <<dbVars, nextId, embVars, monVars, svcVars>>
                   ELSE SearchBegin(t, NoUser, p.query, NoOpts)
            [] h.path = "/memory.update" ->
                 IF p.memoryId = 0
                   THEN /\ Throw(t, 0, MsgMissing("memoryId"))
                        /\ UNCHANGED <<dbVars, nextId, embVars, monVars, svcVars>>
                 ELSE IF p.updates = NoUpdates
                   THEN /\ Throw(t, 0, MsgMissing("updates"))
                        /\ UNCHANGED <<dbVars, nextId, embVars, monVars, svcVars>>
                 ELSE UpdateBegin(t, NoUser, p.memoryId, p.updates.text,
                                  p.updates.entities, TRUE)
            [] h.path = "/memory.retrieve" /\ p.memoryId # 0 ->
                 RetrieveBegin(t, NoUser, p.memoryId)
            [] OTHER -> ListBegin(t, NoUser, NoOpts)

(***************************************************************************)
(* DatabaseService.initialize and the HNSW index                           *)
(***************************************************************************)
Db == "db"            \* the task running DatabaseService.initialize
MAX_RETRIES == 5
RETRY_DELAY_MS == 3000

MsgLock == <<"IO Error: ", "Could not set lock", " on file <dbPath>">>
MsgNoFile == <<"IO Error: ", "Cannot open file <dbPath>">>

\* DatabaseService after its constructor, with the locals of initialize
\* (attempt, the delay of the pending retry, the error last caught) and the
\* state of the HNSW index: "none", "built", "stale" (holding entries of
\* deleted rows), "pruned" (compacted)
\* and the tables beside memory: context_rules and installed_skills, each the
\* sequence of its rows in the order of their insertion
NoDbs == [isInitialized |-> FALSE, vssEnabled |-> FALSE, hnsw |-> "none",
          attempt |-> 0, delay |-> 0, err |-> MsgNone,
          rules |-> << >>, skills |-> << >>]

\* what opening the database file can do: succeed, succeed without the VSS
\* extension, find the file locked by another process, fail otherwise
Connects == {"ok", "novss", "lock", "other"}

isLockError(msg) == Includes(msg, "Could not set lock")

\* the catch of initialize: retry or give up
Retryable_Any(msg, attempt) == attempt < MAX_RETRIES

Retryable(msg, attempt) == isLockError(msg) /\ attempt < MAX_RETRIES

\* DROP INDEX IF EXISTS, COUNT(*), and CREATE INDEX when there are rows
IndexOver_None(rows) == "none"

IndexOver(rows) == IF rows = {} THEN "none" ELSE "built"

\* _tryConnect: open, connect, createTables, initVectorSearch (which
\* swallows its own errors and only clears vssEnabled)
tryConnect(outcome) ==
  CASE outcome = "lock" -> [ok |-> FALSE, err |-> MsgLock, vss |-> FALSE]
    [] outcome = "other" -> [ok |-> FALSE, err |-> MsgNoFile, vss |-> FALSE]
    [] outcome = "novss" -> [ok |-> TRUE, err |-> MsgNone, vss |-> FALSE]
    [] OTHER -> [ok |-> TRUE, err |-> MsgNone, vss |-> TRUE]

\* initialize() up to its first await: attempt 1 of the loop
initialize ==
  /\ pc[Db] \in {"idle", "done"}
  /\ IF dbs.isInitialized
     THEN /\ pc' = [pc EXCEPT ![Db] = "done"]
          /\ UNCHANGED dbs
     ELSE /\ pc' = [pc EXCEPT ![Db] = "db_connect"]
          /\ dbs' = [dbs EXCEPT !.attempt = 1, !.err = MsgNone]
  /\ UNCHANGED <<dbVars, nextId, embVars, req, loc, monVars, ret>>

\* await this._tryConnect() returns or throws into the catch of the loop
initializeAttempt(outcomes) ==
  /\ pc[Db] = "db_connect"
  /\ \E o \in outcomes :
       LET r == tryConnect(o) IN
       IF r.ok
       THEN /\ dbs' = [dbs EXCEPT !.isInitialized = TRUE,
                                  !.attempt = 0, !.err = MsgNone,
                                  !.vssEnabled = r.vss,
                                  !.hnsw = IF r.vss THEN IndexOver(DOMAIN memory)
                                           ELSE @]
            /\ pc' = [pc EXCEPT ![Db] = "done"]
       ELSE IF Retryable(r.err, dbs.attempt)
            THEN /\ dbs' = [dbs EXCEPT !.err = r.err,
                                       !.delay = RETRY_DELAY_MS * dbs.attempt]
                 /\ pc' = [pc EXCEPT ![Db] = "db_wait"]
            ELSE /\ dbs' = [dbs EXCEPT !.err = r.err]
                 /\ pc' = [pc EXCEPT ![Db] = "failed"]
  /\ UNCHANGED <<dbVars, nextId, embVars, req, loc, monVars, ret>>

\* the setTimeout of the retry fires: the next attempt of the loop
initializeRetry ==
  /\ pc[Db] = "db_wait"
  /\ dbs' = [dbs EXCEPT !.attempt = @ + 1, !.delay = 0]
  /\ pc' = [pc EXCEPT ![Db] = "db_connect"]
  /\ UNCHANGED <<dbVars, nextId, embVars, req, loc, monVars, ret>>

\* the start-up of the database
Connecting(outcomes) ==
  initialize \/ initializeAttempt(outcomes) \/ initializeRetry

(***************************************************************************)
(* RetentionService: start, stop, check, purge                             *)
(***************************************************************************)
Keeper == "rs"        \* the task running start()
Closer == "rx"        \* the task running stop()
Checks == {"c1", "c2"}

\* One run of check(): who called it, the locals of check and purge, and,
\* as history for the properties, its number among the checks begun (no),
\* the database statements purge has run
\* (steps), the log line the run ended with (out) and, while the run lasts,
\* the tables as they were when it began (was).
NoRun == [no |-> 0, caller |-> "none", oldest |-> 0, cutoff |-> 0, purgeCount |-> 0,
          steps |-> << >>, out |-> "none",
          was |-> [memory |-> << >>, entities |-> EmptyBag]]

\* RetentionService after its constructor (retention is enabled); as
\* history, the checks begun (checks) and the records the purges have
\* deleted from memory (deleted)
NoRet == [timer |-> FALSE, db |-> FALSE, lastPurge |-> FALSE, totalPurged |-> 0,
          checks |-> 0, deleted |-> 0, run |-> [c \in Checks |-> NoRun]]

SetMin(S) == CHOOSE x \in S : \A y \in S : x <= y
SetMax(S) == CHOOSE x \in S : \A y \in S : x >= y
\* SELECT MIN(created_at), MAX(created_at) FROM memory
CreatedAt(m) == {m[i].createdAt : i \in DOMAIN m}

\* Math.floor((newest - oldest) / (1000 * 60 * 60 * 24))
dataAgeDays(oldest, newest) == (newest - oldest) \div DayMs

\* the check goes on to purge unless dataAgeDays <= maxDays
Due_AtLimit(age) == age >= maxDays

Due(age) == ~(age <= maxDays)

\* cutoffDate.setDate(cutoffDate.getDate() + purgeDays), in days of 24 hours
cutoffDate(oldest) == oldest + purgeDays * DayMs

\* the ids of SELECT id FROM memory WHERE created_at < cutoff
Expired(m, cutoff) == {i \in DOMAIN m : m[i].createdAt < cutoff}

\* DELETE FROM memory_entities WHERE memory_id IN (SELECT id FROM memory ..)
EntPurged_None(e, ids) == e

EntPurged(e, ids) == [r \in {x \in DOMAIN e : x.mid \notin ids} |-> e[r]]

\* DELETE FROM memory WHERE created_at < cutoff
MemPurged(m, cutoff) == [i \in DOMAIN m \ Expired(m, cutoff) |-> m[i]]

\* check() is called and runs to its first await, the query; r is `ret`
\* as the caller leaves it
Entered(r, c, caller) ==
  [r EXCEPT !.checks = @ + 1,
            !.run[c] = [NoRun EXCEPT !.no = r.checks + 1, !.caller = caller,
                          !.was = [memory |-> memory, entities |-> entities]]]

\* check() returns with log line out: the call awaiting it goes on, start()
\* to setInterval, stop() to its end; r is `ret` as the check leaves it
Leave(c, r, out) ==
  LET who == ret.run[c].caller IN
  /\ ret' = [r EXCEPT !.run[c].out = out, !.run[c].was = NoRun.was,
                      !.timer = IF who = "start" THEN TRUE ELSE @]
  /\ pc' = [pc EXCEPT ![c] = "done",
                      ![Keeper] = IF who = "start" THEN "done" ELSE @,
                      ![Closer] = IF who = "stop" THEN "done" ELSE @]

\* purge has run statement s
Stepped(c, s) == [ret EXCEPT !.run[c].steps = Append(@, s)]

\* a check can begin: the slots take the checks in turn, a free one first
CanCheck(c) ==
  LET turn == IF ret.checks % 2 = 0 THEN "c1" ELSE "c2" IN
  /\ pc[c] \in {"idle", "done"} /\ ret.checks < MaxChecks
  /\ c = turn \/ pc[turn] \notin {"idle", "done"}

\* start(): retention is enabled; the initial check is awaited
start(c) ==
  /\ pc[Keeper] = "idle" /\ dbs.isInitialized /\ CanCheck(c)
  /\ ret' = Entered([ret EXCEPT !.db = TRUE], c, "start")
  /\ pc' = [pc EXCEPT ![Keeper] = "rs_check", ![c] = "ck_query"]
  /\ UNCHANGED <<dbVars, nextId, embVars, req, loc, monVars, dbs>>

\* the interval timer fires: () => this.check(), awaited by nobody
timerFire(c) ==
  /\ ret.timer /\ CanCheck(c)
  /\ ret' = Entered(ret, c, "timer")
  /\ pc' = [pc EXCEPT ![c] = "ck_query"]
  /\ UNCHANGED <<dbVars, nextId, embVars, req, loc, monVars, dbs>>

\* stop(): clearInterval, then the final check if start() got as far as
\* taking the database
stop(c) ==
  /\ pc[Closer] = "idle"
  /\ IF ret.db
     THEN /\ CanCheck(c)
          /\ ret' = Entered([ret EXCEPT !.timer = FALSE], c, "stop")
          /\ pc' = [pc EXCEPT ![Closer] = "rx_check", ![c] = "ck_query"]
     ELSE /\ ret' = [ret EXCEPT !.timer = FALSE]
          /\ pc' = [pc EXCEPT ![Closer] = "done"]
  /\ UNCHANGED <<dbVars, nextId, embVars, req, loc, monVars, dbs>>

\* check(): the query returns; within the limit the check returns, beyond
\* it purge(oldest) runs to its first await
check(c, E) ==
  /\ pc[c] = "ck_query"
  /\ \E fail \in E.fails :
       IF fail THEN Leave(c, ret, "check failed")
       ELSE IF DOMAIN memory = {} THEN Leave(c, ret, "no data")
       ELSE LET oldest == SetMin(CreatedAt(memory))
                newest == SetMax(CreatedAt(memory))
            IN  IF ~Due(dataAgeDays(oldest, newest))
                THEN Leave(c, ret, "passed")
                ELSE /\ ret' = [ret EXCEPT !.run[c].oldest = oldest,
                                  !.run[c].cutoff = cutoffDate(oldest)]
                     /\ pc' = [pc EXCEPT ![c] = "pg_count"]
  /\ UNCHANGED <<dbVars, nextId, embVars, req, loc, monVars, dbs>>

\* purge: SELECT COUNT(*) .. WHERE created_at < cutoff
PurgeCount(c, E) ==
  /\ pc[c] = "pg_count"
  /\ \E fail \in E.fails :
       LET n == Cardinality(Expired(memory, ret.run[c].cutoff)) IN
       IF fail THEN Leave(c, ret, "purge failed")
       ELSE IF n = 0 THEN Leave(c, ret, "nothing to purge")
       ELSE /\ ret' = [ret EXCEPT !.run[c].purgeCount = n]
            /\ pc' = [pc EXCEPT ![c] = "pg_entities"]
  /\ UNCHANGED <<dbVars, nextId, embVars, req, loc, monVars, dbs>>

\* purge: the entity rows of the records about to go
PurgeEntities(c, E) ==
  /\ pc[c] = "pg_entities"
  /\ \E fail \in E.fails :
       IF fail THEN Leave(c, ret, "purge failed") /\ UNCHANGED entities
       ELSE /\ entities' = EntPurged(entities,
                                     Expired(memory, ret.run[c].cutoff))
            /\ ret' = Stepped(c, "entities")
            /\ pc' = [pc EXCEPT ![c] = "pg_records"]
  /\ UNCHANGED <<memory, now, nextId, embVars, req, loc, monVars, dbs>>

\* purge: the records; the index keeps their entries until it is compacted
PurgeRecords(c, E) ==
  /\ pc[c] = "pg_records"
  /\ \E fail \in E.fails :
       IF fail THEN Leave(c, ret, "purge failed") /\ UNCHANGED <<memory, dbs>>
       ELSE /\ memory' = MemPurged(memory, ret.run[c].cutoff)
            /\ dbs' = [dbs EXCEPT !.hnsw = IF @ = "none" \/ memory' = memory
                                           THEN @ ELSE "stale"]
            /\ ret' = [Stepped(c, "records") EXCEPT
                         !.deleted = @ + Cardinality(Expired(memory,
                                                             ret.run[c].cutoff))]
            /\ pc' = [pc EXCEPT ![c] = "pg_compact"]
  /\ UNCHANGED <<entities, now, nextId, embVars, req, loc, monVars>>

\* compactHnswIndex: a no-op without VSS; its errors are logged, not thrown
PurgeCompact(c, E) ==
  /\ pc[c] = "pg_compact"
  /\ \E fail \in E.fails :
       dbs' = [dbs EXCEPT !.hnsw = IF dbs.vssEnabled /\ ~fail /\ @ = "stale"
                                   THEN "pruned" ELSE @]
  /\ ret' = Stepped(c, "compact")
  /\ pc' = [pc EXCEPT ![c] = "pg_checkpoint"]
  /\ UNCHANGED <<dbVars, nextId, embVars, req, loc, monVars>>

\* purge: CHECKPOINT
PurgeCheckpoint(c, E) ==
  /\ pc[c] = "pg_checkpoint"
  /\ \E fail \in E.fails :
       IF fail THEN Leave(c, ret, "purge failed")
       ELSE /\ ret' = Stepped(c, "checkpoint")
            /\ pc' = [pc EXCEPT ![c] = "pg_rebuild"]
  /\ UNCHANGED <<dbVars, nextId, embVars, req, loc, monVars, dbs>>

\* rebuildHnswIndex (drop, count, create; a no-op without VSS; its errors
\* are logged, not thrown: the index is then as it was, or dropped), then
\* the counters of purge and its return
PurgeRebuild(c, E) ==
  /\ pc[c] = "pg_rebuild"
  /\ \E fail \in E.fails, dropped \in BOOLEAN :
       dbs' = [dbs EXCEPT !.hnsw =
                 IF ~dbs.vssEnabled THEN @
                 ELSE IF ~fail THEN IndexOver(DOMAIN memory)
                 ELSE IF dropped THEN "none" ELSE @]
  /\ Leave(c, [Stepped(c, "rebuild") EXCEPT
                 !.lastPurge = TRUE,
                 !.totalPurged = @ + ret.run[c].purgeCount], "purged")
  /\ UNCHANGED <<dbVars, nextId, embVars, req, loc, monVars>>

\* The retention service: its calls begin while the tasks of S rest, its
\* checks go on while the tasks of T rest.  The process is shut down after
\* its start-up is over.
Keeping(E, S, T) ==
  \E c \in Checks :
    \/ Resting(S) /\ (start(c) \/ timerFire(c))
    \/ Resting(S) /\ pc[Keeper] = "done" /\ stop(c)
    \/ /\ Resting(T)
       /\ \/ check(c, E) \/ PurgeCount(c, E) \/ PurgeEntities(c, E)
          \/ PurgeRecords(c, E) \/ PurgeCompact(c, E)
          \/ PurgeCheckpoint(c, E) \/ PurgeRebuild(c, E)

----------------------------------------------------------------------------
(* The service after construction, and its steps                           *)

Init ==
  /\ memory = << >>
  /\ entities = EmptyBag
  /\ now = 0
  /\ nextId = 0
  /\ isLoaded = FALSE
  /\ cache = << >>
  /\ cacheStats = [hits |-> 0, misses |-> 0, totalRequests |-> 0]
  /\ pc = [t \in Tasks \cup {Boot, Starter, Stopper, Keeper, Closer} \cup Checks
              |-> "idle"] @@ (Db :> "done")
  /\ req = [t \in Tasks |-> NoReq]
  /\ loc = [t \in Tasks |-> NoLoc]
  /\ mon = [isRunning |-> FALSE, intervalId |-> FALSE,
            lastAppName |-> NoWin.appName, lastWindowTitle |-> NoWin.windowTitle,
            captureCount |-> 0, skipCount |-> 0, errorCount |-> 0,
            caller |-> [k \in Ticks |-> "none"]]
  /\ shot = [lastScreenshotBuffer |-> NoShot, lastScreenshotPNG |-> NoShot]
  /\ ocr = [isInitialized |-> FALSE, lastTextHash |-> NoHash, last |-> NoOcr]
  /\ ret = NoRet
  /\ dbs = [NoDbs EXCEPT !.isInitialized = TRUE, !.vssEnabled = TRUE]

\* The environment of a run: what a call of the model can do, whether a
\* write statement can fail (TRUE in fails), and the instants of the clock.
Env(outcomes, fails, instants) ==
  [outcomes |-> outcomes, fails |-> fails, instants |-> instants]

\* the embedder's start-up
Embedder(E) == initializeLoad \/ initializeTest(E)

\* a client of P calls the API while the tasks of S rest: one route's handler
\* runs up to its first await
Calls(P, S, users, ids, texts, ents, finds) ==
  \E t \in P, u \in users :
    \/ \E text \in texts, es \in ents :
         Resting(S) /\ StoreBegin(t, u, text, es)
    \/ \E id \in ids, text \in texts, es \in ents, hasEnts \in BOOLEAN :
         Resting(S) /\ UpdateBegin(t, u, id, text, es, hasEnts)
    \/ \E id \in ids : Resting(S) /\ DeleteBegin(t, u, id)
    \/ \E id \in ids : Resting(S) /\ RetrieveBegin(t, u, id)
    \/ \E o \in ListInputs : Resting(S) /\ ListBegin(t, u, o)
    \/ \E q \in texts, o \in finds :
         /\ Resting(S) /\ (CanEmbed \/ ~isLoaded \/ o \notin SearchInputs)
         /\ SearchBegin(t, u, q, o)

\* a handler parked at an await goes on
Steps(E) ==
  \E t \in Procs :
    \/ StoreModel(t, E) \/ StoreInsert(t, E) \/ StoreEntity(t, E)
    \/ UpdateSelect(t) \/ UpdateModel(t, E) \/ UpdateDelete(t, E)
    \/ UpdateInsert(t, E) \/ UpdateEntDelete(t, E) \/ UpdateEntity(t, E)
    \/ DeleteEntities(t, E) \/ DeleteMemory(t, E)
    \/ RetrieveSelect(t) \/ RetrieveEntities(t)
    \/ ListCount(t) \/ ListSelect(t) \/ ListEntities(t)
    \/ SearchModel(t, E) \/ SearchSelect(t, E) \/ SearchDebug(t)
    \/ SearchEntities(t)

\* storeCapture as the monitor's ticks run it
Captures(E) ==
  \E k \in Ticks : CaptureModel(k, E) \/ CaptureInsert(k, E) \/ CaptureEntity(k, E)

\* the monitor: start, the timer, the ticks, stop
Monitor(W) ==
  \/ StartBegin \/ StopBegin \/ StopTerminate
  \/ \E k \in Ticks :
       \/ StartInit(k, W) \/ TimerFire(k, W) \/ TickCapture(k, W) \/ TickDiff(k)
       \/ TickOcrInit(k) \/ TickOcr(k, W)

\* The API used by one client, one request at a time, by two users with
\* texts of every kind within the length limit; the model can fail, the
\* database does not.
SpecTexts == TextInputs \ {Text(<<"b">>, MaxTextLen + 1, 0)}

Next ==
  \/ Embedder(Env(ModelOutcomes \ {"tensor"}, {FALSE}, {1}))
  \/ Calls({"p1"}, {}, UserInputs, Ids, SpecTexts, EntInputs, SearchInputs)
  \/ Steps(Env(ModelOutcomes \ {"tensor"}, {FALSE}, {1}))

Spec == Init /\ [][Next]_vars

\* The API under two clients of one user whose requests interleave at every
\* await; the model and the database do not fail.
ParTexts == {Text(<<"a">>, 5, 1), Text(<<"b">>, MaxTextLen, 0)}

NextPar ==
  \/ Embedder(Env({"ok"}, {FALSE}, {1}))
  \/ Calls(Procs, {}, {NoUser}, {1}, ParTexts, EntInputs \ {<< >>},
           SearchInputs)
  \/ Steps(Env({"ok"}, {FALSE}, {1}))

SpecPar == Init /\ [][NextPar]_vars

\* The monitor on its own, tick by tick, in a world rich enough for every
\* gate of tick() to open and to close.
NextMon ==
  \/ Embedder(Env({"ok", "error"}, BOOLEAN, {1}))
  \/ Monitor(World(Windows, Screens, OcrTexts, MaxTicks))
  \/ Captures(Env({"ok", "error"}, BOOLEAN, {1}))

SpecMon == Init /\ [][NextMon]_vars

\* The monitor with a timer that fires while earlier ticks are still running:
\* one window, two screens, and a recognition that finds a text or nothing.
NextTick ==
  \/ Embedder(Env({"ok", "error"}, BOOLEAN, {1}))
  \/ Monitor(World({Win("Code", "a.js")}, {"s1", "s3"},
                    {Text(<<"o1">>, 12, 0), NoText}, MaxOverlap))
  \/ Captures(Env({"ok", "error"}, BOOLEAN, {1}))

SpecTick == Init /\ [][NextTick]_vars

\* The API used by one client of one user, one request at a time; writes
\* can fail and the clock moves.
OneTexts == {Text(<<"a">>, 5, 1), Text(<<"b">>, MaxTextLen, 0), NoText}

NextOne ==
  \/ Embedder(Env({"ok"}, BOOLEAN, Instants))
  \/ Calls({"p1"}, {}, {NoUser}, Ids, OneTexts, EntInputs, SearchInputs)
  \/ Steps(Env({"ok"}, BOOLEAN, Instants))

SpecOne == Init /\ [][NextOne]_vars

\* The API used by one client, with the captures of the monitor arriving
\* between the requests; the texts reach and pass the length limit, every
\* request carries entities, and the model can fail in each of its ways.
CapTexts == {Text(<<"a">>, 5, 1), Text(<<"b">>, MaxTextLen, 0),
             Text(<<"b">>, MaxTextLen + 1, 0), NoText}

NextCap ==
  \/ Embedder(Env(ModelOutcomes, {FALSE}, {1}))
  \/ Calls({"p1"}, {"k1"}, {NoUser}, Ids, CapTexts, EntInputs \ {<< >>},
           SearchInputs)
  \/ \E w \in Windows, text \in OcrTexts :
       Resting({"p1"}) /\ TickStore("k1", w, text)
  \/ Steps(Env(ModelOutcomes, {FALSE}, {1}))
  \/ Captures(Env(ModelOutcomes, {FALSE}, {1}))

SpecCap == Init /\ [][NextCap]_vars

\* The API used by one client whose searches also ask for a minimum
\* similarity below the default, over records of like and unlike texts.
FindTexts == {Text(<<"a">>, 5, 1), Text(<<"b">>, MaxTextLen, 0),
              Text(<<"b">>, MaxTextLen + 1, 0)}

NextFind ==
  \/ Embedder(Env({"ok"}, {FALSE}, {1}))
  \/ Calls({"p1"}, {}, {NoUser}, Ids, FindTexts, EntInputs \ {<< >>},
           FindInputs)
  \/ Steps(Env({"ok"}, {FALSE}, {1}))

SpecFind == Init /\ [][NextFind]_vars

\* The API behind the HTTP front: one client sends requests of every shape,
\* with and without a valid key, to the store, search, update, retrieve and
\* list routes, and calls Delete.
Bodies ==
  LET a == Text(<<"a">>, 5, 1)
      b == Text(<<"b">>, MaxTextLen, 0)
      none == Payload(NoText, NoText, 0, << >>, NoUpdates)
  IN  {[path |-> "/memory.store",
        payload |-> Payload(a, NoText, 0, <<Ent("person", "x")>>, NoUpdates)],
       [path |-> "/memory.store", payload |-> none],
       [path |-> "/memory.search",
        payload |-> Payload(NoText, a, 0, << >>, NoUpdates)],
       [path |-> "/memory.search", payload |-> none],
       [path |-> "/memory.update",
        payload |-> Payload(NoText, NoText, 1, << >>,
                            Updates(b, <<Ent("place", "y")>>))],
       [path |-> "/memory.update",
        payload |-> Payload(NoText, NoText, 1, << >>, NoUpdates)],
       [path |-> "/memory.update",
        payload |-> Payload(NoText, NoText, 0, << >>, Updates(b, << >>))],
       [path |-> "/memory.retrieve",
        payload |-> Payload(NoText, NoText, 1, << >>, NoUpdates)],
       [path |-> "/memory.list", payload |-> none]}

\* every body with and without a valid key in a well-formed envelope, and
\* every fault of the envelope with every kind of key and size
HttpInputs ==
  {HttpReq(FALSE, auth, "mcp.v1", "user-memory", "memory.any", b.payload,
           b.path) : auth \in {"", "key0", "key1"}, b \in Bodies}
  \cup
  {HttpReq(big, auth, e[1], e[2], e[3], e[4], "/memory.store") :
     big \in BOOLEAN, auth \in {"", "key0", "key1"},
     e \in {<<"mcp.v1", "user-memory", "memory.any",
              Payload(Text(<<"a">>, 5, 1), NoText, 0, << >>, NoUpdates)>>,
            <<"", "user-memory", "memory.any",
              Payload(Text(<<"a">>, 5, 1), NoText, 0, << >>, NoUpdates)>>,
            <<"mcp.v2", "user-memory", "memory.any",
              Payload(Text(<<"a">>, 5, 1), NoText, 0, << >>, NoUpdates)>>,
            <<"mcp.v1", "", "memory.any",
              Payload(Text(<<"a">>, 5, 1), NoText, 0, << >>, NoUpdates)>>,
            <<"mcp.v1", "user-memory", "",
              Payload(Text(<<"a">>, 5, 1), NoText, 0, << >>, NoUpdates)>>,
            <<"mcp.v1", "user-memory", "memory.any", NoPayload>>,
            <<"", "", "", NoPayload>>}}

NextHttp ==
  \/ Embedder(Env({"ok"}, {FALSE}, {1}))
  \/ \E h \in HttpInputs : Receive("p1", h)
  \/ \E id \in Ids : DeleteBegin("p1", NoUser, id)
  \/ Steps(Env({"ok"}, {FALSE}, {1}))

SpecHttp == Init /\ [][NextHttp]_vars

\* The records an earlier session left in the database file: none; one of
\* day 0 and one of the middle of day 1; those and one of day 5.  Each has
\* an entity row.
OldText == validateMemoryText(Text(<<"a">>, 5, 1)).text
OldRow(c) == Row(extractUserId(NoUser), "user_memory", OldText,
                 Vec(OldText, "model"), c, c)
OldFiles == {<< >>,
             (11 :> OldRow(0)) @@ (12 :> OldRow(DayMs + DayMs \div 2)),
             (11 :> OldRow(0)) @@ (12 :> OldRow(DayMs + DayMs \div 2))
               @@ (13 :> OldRow(5 * DayMs))}
\* the instants of the clock in the runs of the retention service
RetInstants == {3 * DayMs - 1, 3 * DayMs, 5 * DayMs}

----------------------------------------------------------------------------
(* EmbeddingService.generateEmbedding called on its own                     *)

\* generateEmbedding calls the statistics count in the runs of the embedder
MaxCalls == 5

\* what a call returned: the text, the vector, and whether the cache had it
EmbOut(text, vec, hit) ==
  [kind |-> "embedding", text |-> text, vec |-> vec, hit |-> hit]

\* The caller's locals between its calls: the text and result of the last
\* call (out), the result of the call before it (prev), and the cache keys
\* of the calls that returned a vector, in their order (rows); prev and
\* rows are history.
EmbLocals(t, text) ==
  [NoLoc EXCEPT !.text = text, !.prev = loc[t].out, !.rows = loc[t].rows]

\* generateEmbedding(text) up to its first await, once initialize() is over
EmbedCall(t, text) ==
  /\ Idle(t) /\ pc[Boot] \in {"idle", "done"}
  /\ cacheStats.totalRequests < MaxCalls
  /\ LET e == EmbedLookup(text)
         l == EmbLocals(t, text)
     IN  /\ cache' = e.cache
         /\ cacheStats' = e.stats
         /\ CASE e.status = "throw" ->
                   /\ pc' = [pc EXCEPT ![t] = "failed"]
                   /\ loc' = [loc EXCEPT ![t] = [l EXCEPT !.err = e.err]]
              [] e.status = "hit" ->
                   /\ pc' = [pc EXCEPT ![t] = "done"]
                   /\ loc' = [loc EXCEPT ![t] =
                                [l EXCEPT !.out = EmbOut(text, e.vec, TRUE),
                                          !.rows = Append(@, getCacheKey(text))]]
              [] OTHER ->
                   /\ pc' = [pc EXCEPT ![t] = "em_model"]
                   /\ loc' = [loc EXCEPT ![t] = l]
  /\ UNCHANGED <<dbVars, nextId, isLoaded, req, monVars, svcVars>>

\* the model call returns or throws: extract, validate, cache, return
EmbedModel(t, E) ==
  /\ pc[t] = "em_model"
  /\ \E o \in E.outcomes :
       LET r == EmbedResult(loc[t].text, o) IN
       /\ cache' = r.cache
       /\ IF r.ok
            THEN /\ pc' = [pc EXCEPT ![t] = "done"]
                 /\ loc' = [loc EXCEPT ![t] =
                              [@ EXCEPT !.out = EmbOut(loc[t].text, r.vec, FALSE),
                                        !.rows = Append(@, getCacheKey(loc[t].text))]]
            ELSE /\ pc' = [pc EXCEPT ![t] = "failed"]
                 /\ loc' = [loc EXCEPT ![t] = [@ EXCEPT !.err = r.err]]
  /\ UNCHANGED <<dbVars, nextId, isLoaded, cacheStats, req, monVars, svcVars>>

\* The embedder used directly by one caller, one call after the other: texts
\* that share a cache key and texts that do not, more keys than the cache
\* holds, and a model that can fail in each of its ways.
EmbTexts == {Text(<<"a">>, 5, 1), Text(<<"a">>, 5, 0), Text(<<"b">>, 5, 0),
             Text(<<"c">>, 5, 0), NoText}

NextEmb ==
  \/ Embedder(Env(ModelOutcomes, {FALSE}, {1}))
  \/ \E text \in EmbTexts : EmbedCall("p1", text)
  \/ EmbedModel("p1", Env(ModelOutcomes, {FALSE}, {1}))

SpecEmb == Init /\ [][NextEmb]_vars

----------------------------------------------------------------------------
(* The embedding service of src/services/embeddings.js: a Map as cache     *)

\* getCacheKey: text.slice(0, 100)
MapKeyLen == 100
MapCacheKey(text) == Substring(text, MapKeyLen)

MsgInvalidText == <<"Invalid text for embedding generation">>

\* cacheEmbedding: at maxCacheSize the first key of the Map goes; Map.set
\* appends a new key and leaves a key it already has in its place
cacheEmbedding(key, vec) ==
  LET c == IF Len(cache) >= CacheSize THEN Tail(cache) ELSE cache
      e == [key |-> key, vec |-> vec]
  IN  IF \E i \in 1..Len(c) : c[i].key = key
        THEN [i \in 1..Len(c) |-> IF c[i].key = key THEN e ELSE c[i]]
        ELSE Append(c, e)

\* generateEmbedding after its readiness check: the input check and the
\* cache lookup (cache.has, cache.get), then the model call
MapLookup(t, l) ==
  IF ~Truthy(l.text)
    THEN /\ pc' = [pc EXCEPT ![t] = "failed"]
         /\ loc' = [loc EXCEPT ![t] = [l EXCEPT !.err = MsgInvalidText]]
  ELSE IF CacheHas(MapCacheKey(l.text))
    THEN /\ pc' = [pc EXCEPT ![t] = "done"]
         /\ loc' = [loc EXCEPT ![t] =
                      [l EXCEPT !.out = EmbOut(l.text, CacheVec(MapCacheKey(l.text)), TRUE),
                                !.rows = Append(@, MapCacheKey(l.text))]]
  ELSE /\ pc' = [pc EXCEPT ![t] = "em_model"]
       /\ loc' = [loc EXCEPT ![t] = l]

\* generateEmbedding(text) up to its first await: initialize() when the
\* model is not loaded, the model call otherwise
MapEmbedCall(t, text) ==
  /\ Idle(t) /\ Len(loc[t].rows) < MaxCalls
  /\ IF ~isLoaded
       THEN /\ pc' = [pc EXCEPT ![t] = "em_load"]
            /\ loc' = [loc EXCEPT ![t] = EmbLocals(t, text)]
       ELSE MapLookup(t, EmbLocals(t, text))
  /\ UNCHANGED <<dbVars, nextId, embVars, req, monVars, svcVars>>

\* await this.initialize(): the pipeline loads, or the load throws
MapEmbedLoad(t) ==
  /\ pc[t] = "em_load"
  /\ \E loaded \in BOOLEAN :
       IF loaded
         THEN /\ isLoaded' = TRUE
              /\ MapLookup(t, loc[t])
         ELSE /\ isLoaded' = isLoaded
              /\ pc' = [pc EXCEPT ![t] = "failed"]
              /\ loc' = [loc EXCEPT ![t] = [@ EXCEPT !.err = MsgModel]]
  /\ UNCHANGED <<dbVars, nextId, cache, cacheStats, req, monVars, svcVars>>

\* the model call returns or throws: extract, cache, return (the vector is
\* not validated)
MapEmbedModel(t, E) ==
  /\ pc[t] = "em_model"
  /\ \E o \in E.outcomes :
       IF o = "error"
         THEN /\ pc' = [pc EXCEPT ![t] = "failed"]
              /\ loc' = [loc EXCEPT ![t] = [@ EXCEPT !.err = MsgModel]]
              /\ cache' = cache
         ELSE /\ cache' = cacheEmbedding(MapCacheKey(loc[t].text),
                                         ModelVec(loc[t].text, o))
              /\ pc' = [pc EXCEPT ![t] = "done"]
              /\ loc' = [loc EXCEPT ![t] =
                           [@ EXCEPT !.out = EmbOut(loc[t].text,
                                                    ModelVec(loc[t].text, o), FALSE),
                                     !.rows = Append(@, MapCacheKey(loc[t].text))]]
  /\ UNCHANGED <<dbVars, nextId, isLoaded, cacheStats, req, monVars, svcVars>>

\* That service used directly by one caller, one call after the other, with
\* more keys than the cache holds.
MapTexts == {Text(<<"a">>, 5, 0), Text(<<"b">>, 5, 0), Text(<<"c">>, 5, 0),
             Text(<<"c">>, MapKeyLen + 1, 0), NoText}

NextMap ==
  \/ \E text \in MapTexts : MapEmbedCall("p1", text)
  \/ MapEmbedLoad("p1")
  \/ MapEmbedModel("p1", Env(ModelOutcomes, {FALSE}, {1}))

SpecMap == Init /\ [][NextMap]_vars

----------------------------------------------------------------------------
(* MemoryService.classifyConversationalQuery                               *)

(* A query is a text whose core is the sequence of its words, in lower     *)
(* case and without punctuation; a regular expression of the classifier    *)
(* is the set of phrases of each of its parts: \b(A)\b.*\b(B)\b matches    *)
(* when a phrase of A is followed, anywhere later, by a phrase of B.       *)

\* phrase p stands in w at word i
PhraseAt(w, i, p) ==
  /\ i + Len(p) - 1 <= Len(w)
  /\ \A k \in 1..Len(p) : w[i + k - 1] = p[k]

Words(S) == {<<x>> : x \in S}

\* \b(P)\b
Found(w, P) == \E i \in 1..Len(w), p \in P : PhraseAt(w, i, p)

\* \b(P)\b.*\b(Q)\b
Then2(w, P, Q) ==
  \E i \in 1..Len(w), p \in P :
    /\ PhraseAt(w, i, p)
    /\ \E j \in (i + Len(p))..Len(w), q \in Q : PhraseAt(w, j, q)

\* \b(P)\b.*\b(Q)\b.*\b(R)\b
Then3(w, P, Q, R) ==
  \E i \in 1..Len(w), p \in P :
    /\ PhraseAt(w, i, p)
    /\ \E j \in (i + Len(p))..Len(w), q \in Q :
         /\ PhraseAt(w, j, q)
         /\ \E k \in (j + Len(q))..Len(w), r \in R : PhraseAt(w, k, r)

Speakers == {"we", "i", "you"}
Talks == {"conversation", "discussion", "chat"}
SaidWords == Words({"said", "mentioned", "told", "discussed", "explained"})
WhatDidWe == {<<"what", d, x>> : d \in {"did", "have"}, x \in Speakers}

conversationalPronouns(w) ==
  Found(w, Words({"we", "our"}) \cup
           {<<"you", "said">>, <<"i", "said">>, <<"you", "mentioned">>,
            <<"you", "told">>, <<"i", "asked">>, <<"we", "discussed">>,
            <<"we", "talked">>, <<"we", "covered">>})

anaphoricReferences(w) ==
  Then2(w, Words({"that", "this", "it", "those", "these"}), Words(Speakers))

demonstratives(w) ==
  Found(w, {<<"that", "thing">>, <<"this", "topic">>, <<"those", "points">>,
            <<"these", "ideas">>})

EarlierWords ==
  Words({"earlier", "before", "previously"}) \cup
    {<<"just", "now">>, <<"a", "moment", "ago">>}

temporalConversational(w) ==
  Then2(w, EarlierWords \cup {<<"you", "just">>}, SaidWords)

temporalConversationalReverse(w) == Then2(w, SaidWords, EarlierWords)

\* positionalWithContext.some(p => p.test(queryLower))
positionalWithContext(w) ==
  \/ Then3(w, Words({"first", "last", "initial", "latest"}), Words(Speakers),
           Words({"said", "mentioned", "discussed", "talked"}))
  \/ Then2(w, {<<"what", "did", x>> : x \in Speakers},
           Words({"say", "ask", "discuss", "mention"}) \cup {<<"talk", "about">>})
  \/ Then2(w, Words({"beginning", "start", "end"}),
           {<<"of", a, t>> : a \in {"our", "the"}, t \in Talks})
  \/ Then2(w, {<<"go", "back", "to">>, <<"return", "to">>, <<"back", "to">>},
           {<<"what", x>> : x \in Speakers})

topicalWithContext(w) ==
  \/ Then2(w, WhatDidWe,
           Words({"discuss", "cover"}) \cup
             {<<"talk", "about">>, <<"chat", "about">>})
  \/ Then2(w, Words({"topics", "things", "points", "issues"}),
           {<<x, v>> : x \in Speakers,
                       v \in {"discussed", "covered", "mentioned"}}
             \cup {<<x, "talked", "about">> : x \in Speakers})
  \/ Then2(w, {<<"our", t>> : t \in Talks},
           Words({"about", "regarding", "concerning"}))

overviewWithContext(w) ==
  \/ Then3(w, Words({"summarize", "recap"}) \cup
                {<<"sum", "up">>, <<"overview", "of">>},
           Words({"our", "this", "the"}), Words(Talks))
  \/ Then3(w, WhatDidWe, Words({"chat", "talk"}), Words({"about"}))
  \/ Then3(w, {<<"give", "me", "a">>, <<"give", "me", "an">>},
           Words({"summary", "recap", "overview"}),
           {<<"of", a, t>> : a \in {"our", "this", "the"},
                             t \in {"conversation", "discussion"}})

discourseMarkers(w) ==
  Found(w, {<<"like", x, v>> : x \in {"you", "i"}, v \in {"said", "mentioned"}}
           \cup {<<"as", x, v>> : x \in {"you", "i"},
                                  v \in {"mentioned", "said", "explained"}}
           \cup {<<"you", "were", "saying">>, <<"i", "was", "saying">>})

\* the options of a call: options.sessionId and options.context; an absent
\* sessionId is NoSession, an absent messageCount is -1 (undefined > 0 is
\* false, as -1 > 0 is), an absent hasHistory is FALSE
NoSession == "<undefined>"
Context(sessionId, messageCount, hasHistory) ==
  [sessionId |-> sessionId, messageCount |-> messageCount,
   hasHistory |-> hasHistory]
Options(sessionId, context) == [sessionId |-> sessionId, context |-> context]

\* !!(context.sessionId || options.sessionId)
hasSessionContext(o) ==
  o.context.sessionId \notin {NoSession, ""} \/ o.sessionId \notin {NoSession, ""}

\* context.messageCount > 0 || context.hasHistory
hasMessageHistory(o) == o.context.messageCount > 0 \/ o.context.hasHistory

hasConversationContext_Either(o) == hasSessionContext(o) \/ hasMessageHistory(o)

hasConversationContext(o) == hasSessionContext(o) /\ hasMessageHistory(o)

\* the classification and its confidence (in hundredths)
Class(classification, confidence) ==
  [classification |-> classification, confidence |-> confidence]

\* the rules that follow the context gate, tried in their order
Classified_Ungated(w, o) ==
  IF discourseMarkers(w) THEN Class("POSITIONAL", 98)
  ELSE IF positionalWithContext(w) \/ temporalConversational(w)
            \/ temporalConversationalReverse(w)
    THEN Class("POSITIONAL", 95)
  ELSE IF topicalWithContext(w) THEN Class("TOPICAL", 92)
  ELSE IF overviewWithContext(w) THEN Class("OVERVIEW", 90)
  ELSE Class("GENERAL", 50)

Classified(w, o) ==
  IF ~hasConversationContext(o)
    THEN IF discourseMarkers(w)
              \/ (conversationalPronouns(w)
                    /\ (temporalConversational(w)
                          \/ temporalConversationalReverse(w)))
           THEN Class("POSITIONAL", 70)
           ELSE Class("GENERAL", 95)
  ELSE IF discourseMarkers(w) THEN Class("POSITIONAL", 98)
  ELSE IF positionalWithContext(w) \/ temporalConversational(w)
            \/ temporalConversationalReverse(w)
    THEN Class("POSITIONAL", 95)
  ELSE IF topicalWithContext(w) THEN Class("TOPICAL", 92)
  ELSE IF overviewWithContext(w) THEN Class("OVERVIEW", 90)
  ELSE IF (anaphoricReferences(w) \/ demonstratives(w))
            /\ conversationalPronouns(w)
    THEN Class("POSITIONAL", 85)
  ELSE IF conversationalPronouns(w) THEN Class("GENERAL", 60)
  ELSE Class("GENERAL", 50)

classifyConversationalQuery(query, o) ==
  LET c == Classified(query.core, o) IN
  [kind |-> "classification",
   isConversational |-> (c.classification # "GENERAL"),
   confidence |-> c.confidence,
   classification |-> c.classification,
   contextInfo |-> [hasSessionContext |-> hasSessionContext(o),
                    hasMessageHistory |-> hasMessageHistory(o),
                    hasConversationContext |-> hasConversationContext(o)]]

\* a caller classifies a query (the function keeps no state, so one call
\* per run shows all it does); its request stays with the answer
Classify(t, query, o) ==
  /\ pc[t] = "idle"
  /\ pc' = [pc EXCEPT ![t] = "done"]
  /\ req' = [req EXCEPT ![t] = [NoReq EXCEPT !.op = "classify",
                                             !.text = query, !.opts = o]]
  /\ loc' = [loc EXCEPT ![t] =
               [NoLoc EXCEPT !.out = classifyConversationalQuery(query, o)]]
  /\ UNCHANGED <<dbVars, nextId, embVars, monVars, svcVars>>

\* The classifier applied to queries of every branch, with and without a
\* session and a history.
Query(words) == Text(words, Len(words), 0)
Queries ==
  {Query(<<"what", "did", "i", "say", "first">>),
   Query(<<"what", "was", "the", "first", "thing", "we", "said", "earlier">>),
   Query(<<"what", "did", "we", "say", "when", "you", "mentioned", "it", "earlier">>),
   Query(<<"like", "you", "said", "what", "did", "we", "say", "first">>),
   Query(<<"summarize", "our", "conversation">>),
   Query(<<"what", "did", "we", "talk", "about">>),
   Query(<<"what", "have", "we", "covered">>),
   Query(<<"go", "back", "to", "what", "we", "covered">>),
   Query(<<"the", "beginning", "of", "our", "conversation">>),
   Query(<<"you", "said", "that", "earlier">>),
   Query(<<"that", "thing", "we", "talked">>),
   Query(<<"we", "like", "pizza">>),
   Query(<<"topics", "we", "discussed">>),
   Query(<<"how", "do", "i", "sort", "a", "list">>)}
Sessions == {NoSession, "", "s1"}
OptionInputs ==
  {Options(s, Context(cs, n, h)) :
     s \in Sessions, cs \in Sessions, n \in {-1, 0, 5}, h \in BOOLEAN}

NextClass == \E q \in Queries, o \in OptionInputs : Classify("p1", q, o)

SpecClass == Init /\ [][NextClass]_vars

----------------------------------------------------------------------------
(* The classifier without context gate (the MemoryService of part_003)     *)

positionalPatterns(w) ==
  \/ Found(w, Words({"first", "last", "earlier", "previous", "initial", "latest"}))
  \/ Found(w, {<<"what", "did", x, v>> :
                 x \in {"i", "we"}, v \in {"say", "ask", "discuss", "mention"}})
  \/ Found(w, Words({"beginning", "start", "end"}))

DiscussWords == Words({"discuss", "cover"}) \cup {<<"talk", "about">>}

topicalPatterns(w) ==
  \/ Found(w, {<<"what", d, x>> \o v :
                 d \in {"did", "have"}, x \in {"we", "i"}, v \in DiscussWords})
  \/ Found(w, {<<"topics", x, v>> :
                 x \in {"we", "i"}, v \in {"discussed", "covered", "mentioned"}})
  \/ Found(w, {<<"what", "topics", d, x>> \o v :
                 d \in {"did", "have"}, x \in {"we", "i"}, v \in DiscussWords})
  \/ Found(w, {<<"conversation", "about">>})

overviewPatterns(w) ==
  \/ Found(w, Words({"summarize", "recap", "overview"}) \cup {<<"sum", "up">>})
  \/ Found(w, {<<"what", d, x, c, "about">> :
                 d \in {"did", "have"}, x \in {"we", "i"}, c \in {"chat", "talk"}})

\* classifyConversationalQuery of part_003: the options are not read
classifyByPatterns(query) ==
  LET w == query.core
      c == IF positionalPatterns(w) THEN Class("POSITIONAL", 95)
           ELSE IF topicalPatterns(w) THEN Class("TOPICAL", 90)
           ELSE IF overviewPatterns(w) THEN Class("OVERVIEW", 85)
           ELSE Class("GENERAL", 50)
  IN  [kind |-> "classification",
       isConversational |-> (c.classification # "GENERAL"),
       confidence |-> c.confidence,
       classification |-> c.classification]

ClassifyByPatterns(t, query, o) ==
  /\ pc[t] = "idle"
  /\ pc' = [pc EXCEPT ![t] = "done"]
  /\ req' = [req EXCEPT ![t] = [NoReq EXCEPT !.op = "classify_patterns",
                                             !.text = query, !.opts = o]]
  /\ loc' = [loc EXCEPT ![t] = [NoLoc EXCEPT !.out = classifyByPatterns(query)]]
  /\ UNCHANGED <<dbVars, nextId, embVars, monVars, svcVars>>

\* Both classifiers applied to the queries of the repository's tests and to
\* the queries above.
SayFirst == Query(<<"what", "did", "i", "say", "first">>)
TopicsDiscuss == Query(<<"what", "topics", "did", "we", "discuss">>)
Summarize == Query(<<"summarize", "our", "conversation">>)
Weather == Query(<<"what", "is", "the", "weather", "today">>)
DidWeDiscuss == Query(<<"what", "did", "we", "discuss">>)
TestQueries == {SayFirst, TopicsDiscuss, Summarize, Weather, DidWeDiscuss}

NextTests ==
  \E q \in Queries \cup TestQueries, o \in OptionInputs :
    \/ Classify("p1", q, o)
    \/ ClassifyByPatterns("p1", q, o)

SpecTests == Init /\ [][NextTests]_vars

----------------------------------------------------------------------------
(* ContextRuleService.upsert                                               *)

\* rows context_rules may hold in the runs of the model
MaxRules == 3

MsgRuleArgs == <<"contextKey and ruleText are required">>

RuleRow(id, type, key, rule) ==
  [id |-> id, contextType |-> type, contextKey |-> key, ruleText |-> rule]

\* contextType === 'app' ? 'app' : 'site'
safeType(type) == IF type = "app" THEN "app" ELSE "site"
\* contextKey.toLowerCase().trim() (keys are lower case)
safeKey(key) == Trim(key)

\* SELECT id, rule_text FROM context_rules WHERE context_key = .. AND
\* context_type = ..
SelectRules(key, type) ==
  {i \in 1..Len(dbs.rules) :
     dbs.rules[i].contextKey = key /\ dbs.rules[i].contextType = type}

\* row.rule_text.trim() === ruleText.trim()
SameRule(a, b) == Trim(a) = Trim(b)

Upserting == {t \in Procs : pc[t] \in {"cr_select", "cr_insert"}}

\* upsert(contextKey, ruleText, {contextType}) up to its first await
UpsertBegin(t, key, rule, type) ==
  /\ Idle(t)
  /\ Len(dbs.rules) + Cardinality(Upserting) < MaxRules
  /\ IF ~Truthy(key) \/ ~Truthy(rule)
       THEN Throw(t, 0, MsgRuleArgs)
       ELSE Call(t, [NoReq EXCEPT !.op = "upsert", !.text = rule,
                                  !.opts = [contextKey |-> key, contextType |-> type]],
                 "cr_select", NoLoc)
  /\ UNCHANGED <<dbVars, nextId, embVars, monVars, svcVars>>

\* the SELECT returns: an equal rule among the rows ends the call
UpsertSelect(t, E) ==
  /\ pc[t] = "cr_select"
  /\ \E fail \in E.fails :
       LET rows == SelectRules(safeKey(req[t].opts.contextKey),
                               safeType(req[t].opts.contextType))
           same == {i \in rows : SameRule(dbs.rules[i].ruleText, req[t].text)}
       IN  IF fail THEN Throw(t, 0, MsgDb)
           ELSE IF same # {}
             THEN \E i \in same :
                    Return(t, 0, [kind |-> "rule", id |-> dbs.rules[i].id,
                                  created |-> FALSE])
           ELSE Goto(t, "cr_insert", loc[t])
  /\ UNCHANGED <<dbVars, nextId, embVars, monVars, svcVars>>

\* INSERT INTO context_rules
UpsertInsert(t, E) ==
  /\ pc[t] = "cr_insert"
  /\ \E fail \in E.fails :
       IF fail
         THEN Throw(t, 0, MsgDb) /\ dbs' = dbs
         ELSE LET id == Len(dbs.rules) + 1 IN
              /\ dbs' = [dbs EXCEPT !.rules =
                           Append(@, RuleRow(id, safeType(req[t].opts.contextType),
                                             safeKey(req[t].opts.contextKey),
                                             req[t].text))]
              /\ Return(t, 0, [kind |-> "rule", id |-> id, created |-> TRUE])
  /\ UNCHANGED <<dbVars, nextId, embVars, monVars, ret>>

\* Two callers upsert rules for one site and one app; their calls interleave
\* at every await and a statement may fail.
RuleKeys == {Text(<<"slack">>, 5, 0), Text(<<"slack">>, 5, 1), NoText}
RuleTexts == {Text(<<"r1">>, 20, 0), Text(<<"r1">>, 20, 2), Text(<<"r2">>, 20, 0)}
RuleTypes == {"site", "app", ""}

NextRules ==
  \E t \in Procs :
    \/ \E key \in RuleKeys, rule \in RuleTexts, type \in RuleTypes :
         UpsertBegin(t, key, rule, type)
    \/ UpsertSelect(t, Env({"ok"}, BOOLEAN, {1}))
    \/ UpsertInsert(t, Env({"ok"}, BOOLEAN, {1}))

SpecRules == Init /\ [][NextRules]_vars

----------------------------------------------------------------------------
(* SkillRegistryService.install                                            *)

\* rows installed_skills may hold in the runs of the model
MaxSkills == 2

\* A path is the sequence of the pieces of its string: "/" is the
\* separator, every other piece is a part of a segment, so that a string
\* starts with another exactly when its pieces start with the other's.
startsWith(s, p) == Len(p) <= Len(s) /\ SubSeq(s, 1, Len(p)) = p

\* the segments of a path, empty ones dropped
RECURSIVE Segments(_)
Segments(p) ==
  IF p = << >> THEN << >>
  ELSE LET seps == {i \in 1..Len(p) : p[i] = "/"}
           k    == IF seps = {} THEN Len(p) + 1
                   ELSE CHOOSE i \in seps : \A j \in seps : i <= j
           head == SubSeq(p, 1, k - 1)
           rest == SubSeq(p, k + 1, Len(p))
       IN  IF head = << >> THEN Segments(rest)
           ELSE <<head>> \o Segments(rest)

\* "." is dropped and ".." takes the segment before it away; the root has
\* no parent
RECURSIVE Resolved(_, _)
Resolved(stack, segs) ==
  IF segs = << >> THEN stack
  ELSE LET s == Head(segs)
           next == IF s = <<".">> THEN stack
                   ELSE IF s = <<"..">>
                     THEN SubSeq(stack, 1, Len(stack) - 1)
                   ELSE Append(stack, s)
       IN  Resolved(next, Tail(segs))

RECURSIVE Joined(_)
Joined(segs) ==
  IF segs = << >> THEN << >>
  ELSE <<"/">> \o Head(segs) \o Joined(Tail(segs))

\* path.normalize of an absolute path: a trailing separator is kept
normalize(p) ==
  LET segs == Resolved(<< >>, Segments(p))
  IN  IF segs = << >> THEN <<"/">>
      ELSE IF p[Len(p)] = "/" THEN Joined(segs) \o <<"/">>
      ELSE Joined(segs)

\* path.join(a, b) with a absolute and b not empty
pathJoin(a, b) == normalize(a \o <<"/">> \o b)

\* os.homedir()
homedir == <<"/", "home", "/", "u">>

SKILLS_BASE_DIR == pathJoin(homedir, <<".thinkdrop", "/", "skills">>)

VALID_EXEC_TYPES == {"node", "shell"}

\* SKILL_NAME_PATTERN: two parts or more, each of lower-case letters and
\* digits after a first letter. A name is the sequence of its parts between
\* the dots; LowerParts are the parts of the model that fit.
LowerParts == {"check", "weather", "open"}
SKILL_NAME_PATTERN(name) ==
  Len(name) >= 2 /\ \A i \in 1..Len(name) : name[i] \in LowerParts

MsgNoFrontmatter == <<"Skill contract is missing frontmatter (--- block at top of file)">>
MsgSkillField(f) == <<"Skill contract frontmatter is missing required field: ", f>>
MsgSkillName == <<"Skill name ", "<name>", " is invalid.">>
MsgExecType == <<"exec_type ", "<exec_type>", " is not valid.">>
MsgOutside == <<"exec_path ", "<exec_path>", " is outside the allowed skills directory">>

\* A contract is its frontmatter: fm says whether the block is there; a
\* field the block lacks is empty.
Contract(fm, name, description, exec_path, exec_type) ==
  [fm |-> fm, name |-> name, description |-> description,
   exec_path |-> exec_path, exec_type |-> exec_type]

NoSkill == [name |-> << >>, exec_path |-> << >>, exec_type |-> ""]

\* fm.exec_path.startsWith('~/') ? path.join(os.homedir(),
\* fm.exec_path.slice(2)) : fm.exec_path
resolvedPath(exec_path) ==
  IF startsWith(exec_path, <<"~", "/">>) /\ Len(exec_path) > 2
    THEN pathJoin(homedir, SubSeq(exec_path, 3, Len(exec_path)))
  ELSE IF exec_path = <<"~", "/">> THEN normalize(homedir)
  ELSE exec_path

\* validateContract(contractMd): the parsed fields, or the error thrown
validateContract(c) ==
  LET bad(msg) == [ok |-> FALSE, err |-> msg, value |-> NoSkill]
  IN  IF ~c.fm THEN bad(MsgNoFrontmatter)
      ELSE IF c.name = << >> THEN bad(MsgSkillField("name"))
      ELSE IF c.description = "" THEN bad(MsgSkillField("description"))
      ELSE IF c.exec_path = << >> THEN bad(MsgSkillField("exec_path"))
      ELSE IF c.exec_type = "" THEN bad(MsgSkillField("exec_type"))
      ELSE IF ~SKILL_NAME_PATTERN(c.name) THEN bad(MsgSkillName)
      ELSE IF c.exec_type \notin VALID_EXEC_TYPES THEN bad(MsgExecType)
      ELSE IF ~startsWith(resolvedPath(c.exec_path), SKILLS_BASE_DIR)
        THEN bad(MsgOutside)
      ELSE [ok |-> TRUE, err |-> MsgNone,
            value |-> [name |-> c.name,
                       exec_path |-> resolvedPath(c.exec_path),
                       exec_type |-> c.exec_type]]

SkillRow(id, parsed) ==
  [id |-> id, name |-> parsed.name, exec_path |-> parsed.exec_path,
   exec_type |-> parsed.exec_type, enabled |-> TRUE]

Installing == {t \in Procs : pc[t] \in {"sk_select", "sk_update", "sk_insert"}}

\* install(contractMd) up to its first await
InstallBegin(t, c) ==
  /\ Idle(t)
  /\ Len(dbs.skills) + Cardinality(Installing) < MaxSkills
  /\ LET v == validateContract(c)
     IN  IF ~v.ok THEN Throw(t, 0, v.err)
         ELSE Call(t, [NoReq EXCEPT !.op = "install",
                                    !.opts = [contract |-> c, parsed |-> v.value]],
                   "sk_select", NoLoc)
  /\ UNCHANGED <<dbVars, nextId, embVars, monVars, svcVars>>

\* SELECT id FROM installed_skills WHERE name = ..
InstallSelect(t, E) ==
  /\ pc[t] = "sk_select"
  /\ \E fail \in E.fails :
       LET existing == {i \in 1..Len(dbs.skills) :
                          dbs.skills[i].name = req[t].opts.parsed.name}
       IN  IF fail THEN Throw(t, 0, MsgDb)
           ELSE IF existing # {}
             THEN LET i == CHOOSE i \in existing : \A j \in existing : i <= j
                  IN  Goto(t, "sk_update", [loc[t] EXCEPT !.id = dbs.skills[i].id])
           ELSE Goto(t, "sk_insert", loc[t])
  /\ UNCHANGED <<dbVars, nextId, embVars, monVars, svcVars>>

\* UPDATE installed_skills SET .. WHERE id = ..
InstallUpdate(t, E) ==
  /\ pc[t] = "sk_update"
  /\ \E fail \in E.fails :
       IF fail
         THEN Throw(t, 0, MsgDb) /\ dbs' = dbs
         ELSE /\ dbs' = [dbs EXCEPT !.skills =
                           [i \in DOMAIN @ |->
                              IF @[i].id = loc[t].id
                                THEN SkillRow(@[i].id, req[t].opts.parsed)
                                ELSE @[i]]]
              /\ Return(t, 0, [kind |-> "skill", id |-> loc[t].id,
                               created |-> FALSE])
  /\ UNCHANGED <<dbVars, nextId, embVars, monVars, ret>>

\* INSERT INTO installed_skills
InstallInsert(t, E) ==
  /\ pc[t] = "sk_insert"
  /\ \E fail \in E.fails :
       IF fail
         THEN Throw(t, 0, MsgDb) /\ dbs' = dbs
         ELSE LET id == Len(dbs.skills) + 1 IN
              /\ dbs' = [dbs EXCEPT !.skills =
                           Append(@, SkillRow(id, req[t].opts.parsed))]
              /\ Return(t, 0, [kind |-> "skill", id |-> id, created |-> TRUE])
  /\ UNCHANGED <<dbVars, nextId, embVars, monVars, ret>>

\* Two callers install contracts whose exec_path lies in the skills
\* directory, beside it, above it or elsewhere, written from the home
\* directory or from the root; a statement may fail.
SkillsDir == <<".thinkdrop", "/", "skills">>
ExecPaths ==
  { <<"~", "/">> \o SkillsDir \o <<"/", "w", "/", "run.js">>,
    homedir \o <<"/">> \o SkillsDir \o <<"/", "w", "/", "run.js">>,
    <<"~", "/">> \o SkillsDir \o <<"/", "w", "/", "..", "/", "v", "/", "run.js">>,
    <<"~", "/">> \o SkillsDir \o <<"/", "..", "/", "..", "/", "evil.sh">>,
    homedir \o <<"/">> \o SkillsDir \o <<"/", "..", "/", "..", "/", "evil.sh">>,
    homedir \o <<"/">> \o SkillsDir \o <<"-evil", "/", "run.sh">>,
    <<"/", "tmp", "/", "evil.sh">>,
    <<"w", "/", "run.js">>,
    << >> }
SkillNames == {<<"check", "weather">>, <<"open", "weather">>, <<"check">>,
               <<"Check", "weather">>}
SkillContracts ==
  {Contract(TRUE, n, "d", p, "node") : n \in SkillNames, p \in ExecPaths}
    \cup {Contract(fm, <<"check", "weather">>, d,
                   <<"~", "/">> \o SkillsDir \o <<"/", "w", "/", "run.js">>, x) :
            fm \in BOOLEAN, d \in {"d", ""}, x \in {"shell", "python", ""}}

NextSkills ==
  \E t \in Procs :
    \/ \E c \in SkillContracts : InstallBegin(t, c)
    \/ InstallSelect(t, Env({"ok"}, BOOLEAN, {1}))
    \/ InstallUpdate(t, Env({"ok"}, BOOLEAN, {1}))
    \/ InstallInsert(t, Env({"ok"}, BOOLEAN, {1}))

SpecSkills == Init /\ [][NextSkills]_vars

----------------------------------------------------------------------------
(* filterGibberish (ocrService.js)                                         *)

\* timestamps a text of the model may hold
MaxStamps == 11
\* const windowSize = 6, and the nonsense words that make a window gibberish
windowSize == 6
windowNoise == 4
\* a run of so many one-letter words is replaced by the delimiter (step A)
letterRun == 4

\* A text is the sequence of its words between white space. A word is
\*   "ts"     a timestamp, v its value (v stands for "10:<v>AM", all of one
\*            length and none inside another), matched once by the patterns;
\*   "ph"     the placeholder XXTIMESTAMPXX<v>;
\*   "letter" a one-letter word, "short" a two-letter word outside the
\*            dictionary (both nonsense), "real" a longer word with vowels,
\*            outside the dictionary, "the" a word of protectedWords,
\*            "dash" the delimiter ---.
\* paren says the word stands in brackets, as in "(10:01AM)"; tail is the
\* digit written right after the word, -1 when there is none.
Tok(k, v, paren, tail) == [k |-> k, v |-> v, paren |-> paren, tail |-> tail]
Stamp(v) == Tok("ts", v, FALSE, -1)
Word(k) == Tok(k, 0, FALSE, -1)
DELIMITER == Word("dash")

\* the matches of timestampPatterns, in the order of allMatches: the values
\* have one length, so the sort keeps the order of the text
allMatches(text) ==
  LET F[i \in 0..Len(text)] ==
        IF i = 0 THEN << >>
        ELSE IF text[i].k = "ts" THEN Append(F[i - 1], text[i].v)
        ELSE F[i - 1]
  IN  F[Len(text)]

\* text = text.replace(m.value, placeholder) for each match in turn: the
\* first occurrence of the value becomes the placeholder of the next index
RECURSIVE Protect(_, _, _)
Protect(text, ms, placeholderIdx) ==
  IF ms = << >> THEN text
  ELSE LET at == {i \in 1..Len(text) : text[i].k = "ts" /\ text[i].v = Head(ms)}
           first == CHOOSE i \in at : \A j \in at : i <= j
       IN  Protect([text EXCEPT ![first] =
                      Tok("ph", placeholderIdx, @.paren, -1)],
                   Tail(ms), placeholderIdx + 1)

\* Step A: every maximal run of four one-letter words or more becomes the
\* delimiter
RECURSIVE StepA(_)
StepA(text) ==
  IF text = << >> THEN << >>
  ELSE LET stops == {i \in 1..Len(text) : text[i].k # "letter" \/ text[i].paren}
           run == IF stops = {} THEN Len(text)
                  ELSE (CHOOSE i \in stops : \A j \in stops : i <= j) - 1
       IN  IF run >= letterRun
             THEN <<DELIMITER>> \o StepA(SubSeq(text, run + 1, Len(text)))
           ELSE IF run > 0
             THEN SubSeq(text, 1, run) \o StepA(SubSeq(text, run + 1, Len(text)))
           ELSE <<Head(text)>> \o StepA(Tail(text))

\* w.startsWith(PLACEHOLDER_PREFIX)
startsWithPlaceholder(w) == w.k = "ph" /\ ~w.paren
\* protectedLower.has(w.replace(/[^a-zA-Z0-9-]/g, '').toLowerCase())
isProtected(w) == w.k = "the"

\* isNonsenseWord: a placeholder, in brackets or not, holds a digit and has
\* three characters or more
isNonsenseWord(w) == w.k \in {"letter", "short"}

\* words i+1 .. i+windowSize hold windowNoise nonsense words or more
gibberishRanges(words) ==
  {i \in 0..(Len(words) - windowSize) :
     Cardinality({j \in (i + 1)..(i + windowSize) : isNonsenseWord(words[j])})
       >= windowNoise}

\* the words of the text with those of rm replaced by one delimiter per run
RECURSIVE Removed(_, _, _, _)
Removed(words, rm, i, lastWasRemoved) ==
  IF i > Len(words) THEN << >>
  ELSE IF i \in rm
    THEN (IF lastWasRemoved THEN << >> ELSE <<DELIMITER>>)
           \o Removed(words, rm, i + 1, TRUE)
  ELSE <<words[i]>> \o Removed(words, rm, i + 1, FALSE)

\* Step C: the words of the gibberish windows are removed, except those
\* that start with the placeholder prefix and the protected words
StepC(words) ==
  LET ranges == gibberishRanges(words)
      removeSet == {j \in 1..Len(words) :
                      \E i \in ranges : i + 1 <= j /\ j <= i + windowSize}
      rm == {j \in removeSet :
               ~startsWithPlaceholder(words[j]) /\ ~isProtected(words[j])}
  IN  IF ranges = {} THEN words ELSE Removed(words, rm, 1, FALSE)

\* Step D: the nonsense words that are left are removed one by one
StepD(words) ==
  Removed(words, {j \in 1..Len(words) : isNonsenseWord(words[j])}, 1, FALSE)

\* the decimal digits of j start with those of i (i, j < 100)
DigitsStart(i, j) == i = j \/ (j >= 10 /\ j \div 10 = i)

\* text.replace(new RegExp(placeholder, 'g'), ts) for the placeholder of
\* index idx: every occurrence of its characters becomes the timestamp, a
\* digit that follows them stays
RestoreOne(text, idx, ts) ==
  [i \in DOMAIN text |->
     IF text[i].k = "ph" /\ DigitsStart(idx, text[i].v)
       THEN Tok("ts", ts, text[i].paren,
                IF text[i].v = idx THEN -1 ELSE text[i].v % 10)
       ELSE text[i]]

\* Step E: Object.entries(placeholderMap), in the order of insertion
RECURSIVE Restore(_, _, _)
Restore(text, placeholderMap, idx) ==
  IF idx >= Len(placeholderMap) THEN text
  ELSE Restore(RestoreOne(text, idx, placeholderMap[idx + 1]),
               placeholderMap, idx + 1)

\* consecutive delimiters become one; one at either end is dropped
RECURSIVE Collapsed(_)
Collapsed(text) ==
  IF Len(text) < 2 THEN text
  ELSE IF text[1].k = "dash" /\ text[2].k = "dash" THEN Collapsed(Tail(text))
  ELSE <<Head(text)>> \o Collapsed(Tail(text))

Stripped(text) ==
  LET a == IF text # << >> /\ Head(text).k = "dash" THEN Tail(text) ELSE text
  IN  IF a # << >> /\ a[Len(a)].k = "dash" THEN SubSeq(a, 1, Len(a) - 1) ELSE a

\* Step B finds nothing in the texts of the model, which hold no two
\* symbols in a row.
filterGibberish(text) ==
  LET placeholderMap == allMatches(text)
      protected == Protect(text, placeholderMap, 0)
      cleaned == StepD(StepC(StepA(protected)))
  IN  Stripped(Collapsed(Restore(cleaned, placeholderMap, 0)))

\* a caller filters a text (the function keeps no state); its request
\* stays with the answer
FilterGibberish(t, text) ==
  /\ pc[t] = "idle"
  /\ pc' = [pc EXCEPT ![t] = "done"]
  /\ req' = [req EXCEPT ![t] = [NoReq EXCEPT !.op = "filter", !.ents = text]]
  /\ loc' = [loc EXCEPT ![t] = [NoLoc EXCEPT !.rows = filterGibberish(text)]]
  /\ UNCHANGED <<dbVars, nextId, embVars, monVars, svcVars>>

\* Texts of no timestamp up to MaxStamps timestamps, each with its own
\* value, the first of them in brackets or not, between words that are
\* noise, real words and protected words.
Timestamps(n, paren) ==
  [i \in 1..n |-> IF i = 1 THEN Tok("ts", 1, paren, -1) ELSE Stamp(i)]
Leads ==
  { << >>,
    <<Word("real"), Word("short"), Word("letter"), Word("letter"),
      Word("letter"), Word("letter")>>,
    <<Word("short"), Word("short"), Word("letter"), Word("short")>>,
    <<Word("the"), Word("real")>> }
Trails ==
  { << >>,
    <<Word("short"), Word("letter"), Word("letter"), Word("letter"),
      Word("letter")>>,
    <<Word("short"), Word("short"), Word("real")>>,
    <<Word("real"), Word("the")>> }
FilterTexts ==
  {lead \o Timestamps(n, paren) \o trail :
     lead \in Leads, trail \in Trails, n \in 0..MaxStamps, paren \in BOOLEAN}

NextFilter == \E text \in FilterTexts : FilterGibberish("p1", text)

SpecFilter == Init /\ [][NextFilter]_vars

\* The process at its start: the services constructed, the database file
\* as an earlier session left it.
InitBoot ==
  /\ memory \in OldFiles
  /\ entities = SetToBag({EntRow(i, "x") : i \in DOMAIN memory})
  /\ now = SetMax(CreatedAt(memory) \cup {0})
  /\ nextId = 0
  /\ isLoaded = FALSE
  /\ cache = << >>
  /\ cacheStats = [hits |-> 0, misses |-> 0, totalRequests |-> 0]
  /\ pc = [t \in Tasks \cup {Boot, Starter, Stopper, Keeper, Closer, Db}
                  \cup Checks |-> "idle"]
  /\ req = [t \in Tasks |-> NoReq]
  /\ loc = [t \in Tasks |-> NoLoc]
  /\ mon = [isRunning |-> FALSE, intervalId |-> FALSE,
            lastAppName |-> NoWin.appName, lastWindowTitle |-> NoWin.windowTitle,
            captureCount |-> 0, skipCount |-> 0, errorCount |-> 0,
            caller |-> [k \in Ticks |-> "none"]]
  /\ shot = [lastScreenshotBuffer |-> NoShot, lastScreenshotPNG |-> NoShot]
  /\ ocr = [isInitialized |-> FALSE, lastTextHash |-> NoHash, last |-> NoOcr]
  /\ ret = NoRet
  /\ dbs = NoDbs

\* the tasks that rest when a retention call or a client's request begins
\* in the sequential runs
Quiet == {"p1", Keeper, Closer} \cup Checks
RetTexts == {Text(<<"a">>, 5, 1)}

\* the client stores records while the retention service rests
Storing(E) ==
  \/ /\ dbs.isInitialized /\ Resting(Quiet)
     /\ \E text \in RetTexts, es \in EntInputs \ {<< >>} :
          StoreBegin("p1", NoUser, text, es)
  \/ StoreModel("p1", E) \/ StoreInsert("p1", E) \/ StoreEntity("p1", E)

\* Start-up and retention with one client, one thing at a time: the
\* database file may be locked or unreadable at start-up, no statement
\* fails afterwards, the clock moves by days.
NextRet ==
  \/ Connecting(Connects)
  \/ Embedder(Env({"ok"}, {FALSE}, RetInstants))
  \/ Storing(Env({"ok"}, {FALSE}, RetInstants))
  \/ Keeping(Env({"ok"}, {FALSE}, RetInstants), Quiet, {"p1"})

SpecRet == InitBoot /\ [][NextRet]_vars

\* The same, but a statement of the retention service can fail.
NextCrash ==
  \/ Connecting(Connects)
  \/ Embedder(Env({"ok"}, {FALSE}, RetInstants))
  \/ Storing(Env({"ok"}, {FALSE}, RetInstants))
  \/ Keeping(Env({"ok"}, BOOLEAN, RetInstants), Quiet, {"p1"})

SpecCrash == InitBoot /\ [][NextCrash]_vars

\* The retention service as the event loop runs it: the timer fires and
\* stop() is called whatever is in progress; no statement fails.
NextStop ==
  \/ Connecting(Connects)
  \/ Keeping(Env({"ok"}, {FALSE}, RetInstants), {}, {})

SpecStop == InitBoot /\ [][NextStop]_vars

----------------------------------------------------------------------------
(* Properties                                                              *)

\* a task of T is the handler of operation op, parked at label
At(t, op, label) == pc[t] = label /\ req[t].op = op

\* C1: whenever no handler is in progress, every row of memory_entities has a
\* memory_id that is the id of a row of memory.
C1_EntitiesReferenceRecords ==
  Resting(Procs) => \A r \in DOMAIN entities : r.mid \in DOMAIN memory

\* C2: at every moment at most one execution of tick() is in progress.
C2_TicksSerialised == Cardinality(TicksInFlight) <= 1

\* the rows of memory (after a step: of memory') that WHERE id = .. AND
\* user_id = .. selects
Present(mem, id, user) == id \in DOMAIN mem /\ mem[id].user = user

\* C3: the row an Update of record id with text T' leaves (which Retrieve then
\* reads) has text T', the createdAt the record had before the update, and an
\* updatedAt not earlier than the one it had.
C3_UpdatePreservesCreatedAt ==
  [][\A t \in Procs :
       (At(t, "update", "up_insert") /\ Present(memory', req[t].id, req[t].user))
       => LET row == memory'[req[t].id] IN
          /\ Truthy(req[t].text) => row.text = Trim(req[t].text)
          /\ row.createdAt = loc[t].cur.createdAt
          /\ row.updatedAt >= loc[t].cur.updatedAt]_vars

\* a Delete of the record is between its two statements and has removed rows
\* of memory_entities
HalfDeleted(id, user) ==
  \E d \in Procs : /\ At(d, "delete", "del_memory")
                   /\ req[d].id = id /\ req[d].user = user
                   /\ loc[d].total > 0

\* C4: no Retrieve returns the record without entities while a Delete that has
\* removed its entities has not yet removed the record, and a Delete that
\* fails at its second statement has removed no entity row.
C4_DeleteAtomic ==
  [][\A t \in Procs :
       /\ (At(t, "retrieve", "ret_entities") /\ pc'[t] = "done"
           /\ HalfDeleted(req[t].id, req[t].user))
          => loc'[t].out.entities # EmptyBag
       /\ (At(t, "delete", "del_memory") /\ pc'[t] = "failed")
          => loc[t].total = 0]_vars

\* C5: a Delete returns deleted: true and leaves no record of that id and
\* user, whether or not there was one; a Retrieve that finds no such record
\* fails with NOT_FOUND.
C5_DeleteIdempotent ==
  [][\A t \in Procs :
       /\ (At(t, "delete", "del_entities") /\ pc'[t] # pc[t])
          => pc'[t] = "del_memory"
       /\ (At(t, "delete", "del_memory") /\ pc'[t] # pc[t])
          => /\ pc'[t] = "done"
             /\ loc'[t].id = req[t].id
             /\ loc'[t].out.deleted
             /\ ~Present(memory', req[t].id, req[t].user)
       /\ (At(t, "retrieve", "ret_select") /\ pc'[t] # pc[t]
           /\ ~Present(memory, req[t].id, req[t].user))
          => /\ pc'[t] = "failed"
             /\ errorHandler(loc'[t].err).code = "NOT_FOUND"]_vars

\* a Delete removed a record, and the same Delete, called again, found
\* nothing to remove and returned deleted: true
C5_SecondDeleteSucceeded ==
  \E t \in Procs :
    /\ pc[t] = "done" /\ loc[t].out.kind = "delete"
    /\ loc[t].prev.kind = "delete" /\ loc[t].prev.changes = 1
    /\ loc[t].out.deleted /\ loc[t].out.changes = 0
    /\ ~Present(memory, req[t].id, req[t].user)

\* the records whose ids the rows of a result carry all belong to user
OwnedBy(rows, user) ==
  \A k \in 1..Len(rows) : Present(memory, rows[k].id, user)

\* C6: Retrieve, List and Search under user U select and return only records
\* owned by U; a Retrieve of an id whose record belongs to another user fails
\* with NOT_FOUND.
C6_ReadsScopedToUser ==
  [][\A t \in Procs :
       /\ (At(t, "retrieve", "ret_select") /\ pc'[t] # pc[t])
          => IF Present(memory, req[t].id, req[t].user)
               THEN pc'[t] = "ret_entities" /\ loc'[t].cur.user = req[t].user
               ELSE /\ pc'[t] = "failed"
                    /\ errorHandler(loc'[t].err).code = "NOT_FOUND"
       /\ (pc[t] \in {"ls_select", "sr_select"} /\ pc'[t] # pc[t])
          => OwnedBy(loc'[t].rows, req[t].user)
       /\ (pc[t] = "ls_entities" /\ pc'[t] = "done")
          => /\ OwnedBy(loc'[t].out.memories, req[t].user)
             /\ loc'[t].out.total =
                  Cardinality({i \in DOMAIN memory :
                                 /\ memory[i].user = req[t].user
                                 /\ (req[t].opts.type = ""
                                     \/ memory[i].type = req[t].opts.type)})
       /\ (pc[t] = "sr_entities" /\ pc'[t] = "done")
          => OwnedBy(loc'[t].out.results, req[t].user)]_vars

\* a List returned a record while the table also holds a record of another user
C6_ListedBesideAnotherUser ==
  \E t \in Procs :
    /\ pc[t] = "done" /\ loc[t].out.kind = "list"
    /\ loc[t].out.memories # << >>
    /\ \E i \in DOMAIN memory :
         /\ loc[t].out.memories[1].id \in DOMAIN memory
         /\ memory[i].user # memory[loc[t].out.memories[1].id].user

\* C7: every row of memory has an embedding of 384 finite components and a
\* source_text of at most 10000 characters.
C7_StoredRecordsValid ==
  \A i \in DOMAIN memory :
    /\ memory[i].emb # NoVec
    /\ memory[i].emb.dim = EmbDim
    /\ memory[i].emb.finite
    /\ TextLen(memory[i].text) <= MaxTextLen

\* the table holds a user memory of the maximum length and a screen capture
\* cut to its first 2000 characters
C7_LongestTextsStored ==
  \E i, j \in DOMAIN memory :
    /\ memory[i].type = "user_memory" /\ TextLen(memory[i].text) = MaxTextLen
    /\ memory[j].type = "screen_capture"
    /\ TextLen(memory[j].text) = CaptureTextLen

\* no row of memory and no row of memory_entities carries the id
NoRows(mem, ents, id) ==
  id \notin DOMAIN mem /\ \A r \in DOMAIN ents : r.mid # id

\* task t takes a step
Acts(t) == <<pc[t], loc[t]>>' # <<pc[t], loc[t]>>

\* an embedding as storeMemory may pass on to its INSERT
Produced(v) == v # NoVec /\ v.dim = EmbDim /\ v.finite

\* C8: a Store called while the embedder is not initialised fails at once; a
\* Store waiting for its embedding has written nothing, and the model's answer
\* writes nothing; a Store reaches its INSERT only with a produced embedding
\* and before any row of its id exists; a Store that fails for want of an
\* embedding leaves both tables as they were, without a row of its id.
C8_EmbeddingBeforeWrite ==
  [][\A t \in Procs :
       /\ (Idle(t) /\ Acts(t) /\ req'[t].op \in {"store", "none"}
           /\ nextId' # nextId /\ ~isLoaded)
          => pc'[t] = "failed" /\ UNCHANGED dbVars
       /\ (At(t, "store", "st_model") /\ Acts(t))
          => /\ NoRows(memory, entities, loc[t].id)
             /\ UNCHANGED dbVars
             /\ pc'[t] \in {"st_insert", "failed"}
       /\ (req'[t].op = "store" /\ Acts(t) /\ pc'[t] = "st_insert")
          => /\ Produced(loc'[t].emb)
             /\ NoRows(memory', entities', loc'[t].id)
       /\ (Acts(t) /\ pc'[t] = "failed"
           /\ SubSeq(loc'[t].err, 1, 1) = SubSeq(MsgCannotStore(MsgNone), 1, 1))
          => /\ UNCHANGED dbVars
             /\ NoRows(memory', entities', loc'[t].id)]_vars

\* the model failed on a Store after the embedder was initialised, and the
\* Store failed leaving the rows of an earlier Store alone
C8_StoreFailedOnModelError ==
  \E t \in Procs :
    /\ pc[t] = "failed" /\ loc[t].err = MsgCannotStore(MsgModel)
    /\ isLoaded /\ memory # << >>
    /\ NoRows(memory, entities, loc[t].id)

\* C9: a turn of Store's entity loop never fails the Store and never touches
\* the record: it inserts its entity or not, and then goes on to the next
\* entity, or after the last one returns stored: true.
C9_EntityFailureTolerated ==
  [][\A t \in Procs :
       (At(t, "store", "st_entity") /\ Acts(t))
       => LET l == loc[t] IN
          /\ Present(memory, l.id, req[t].user) /\ memory' = memory
          /\ \/ entities' = entities
             \/ entities' = EntInserted(l.id, l.ents[l.i].value)
          /\ IF l.i < Len(l.ents)
               THEN pc'[t] = "st_entity" /\ loc'[t].i = l.i + 1
               ELSE /\ pc'[t] = "done"
                    /\ loc'[t].out.stored
                    /\ loc'[t].out.entities = Len(l.ents)]_vars

\* a Store returned stored: true with its second entity inserted after the
\* insert of the first had failed
C9_StoredAfterEntityFailure ==
  \E t \in Procs :
    /\ pc[t] = "done" /\ loc[t].out.kind = "store" /\ loc[t].out.stored
    /\ loc[t].id \in DOMAIN memory
    /\ EntRow(loc[t].id, "y") \in DOMAIN entities
    /\ EntRow(loc[t].id, "x") \notin DOMAIN entities

C11_SearchFilteredAndSorted ==
  [][\A t \in Procs :
       (req[t].op = "search" /\ pc'[t] = "done" /\ pc[t] # "done") =>
         LET rows == loc'[t].out.results
             s == req[t].opts.minSimilarity
         IN  /\ loc'[t].out.kind = "search"
             /\ \A k \in 1..Len(rows) : s # 0 => rows[k].similarity >= s
             /\ \A j, k \in 1..Len(rows) :
                  j < k => rows[j].similarity >= rows[k].similarity]_vars

\* a Search with a minimum below the default has returned two results of
\* different similarity, the nearer one first
C11_TwoResultsRanked ==
  \E t \in Procs :
    /\ pc[t] = "done" /\ loc[t].out.kind = "search"
    /\ Len(loc[t].out.results) >= 2
    /\ loc[t].out.results[1].similarity > loc[t].out.results[2].similarity
    /\ loc[t].out.results[2].similarity < DefaultMinSimilarity

\* C12: a Retrieve or an Update whose SELECT finds no record with the id under
\* the caller's user fails with NOT_FOUND (404) and changes no row of memory
\* or memory_entities.
C12_MissingIdNotFound ==
  [][\A t \in Procs :
       (/\ pc[t] \in {"ret_select", "up_select"} /\ Acts(t)
        /\ ~Present(memory, req[t].id, req[t].user)) =>
         /\ pc'[t] = "failed"
         /\ errorHandler(loc'[t].err) = [code |-> "NOT_FOUND", status |-> 404]
         /\ memory' = memory /\ entities' = entities]_vars

\* an Update has failed with NOT_FOUND on an id that another user's record has
C12_UpdateOfForeignIdRefused ==
  \E t \in Procs :
    /\ pc[t] = "failed" /\ loc[t].err = MsgUpdNotFound
    /\ errorHandler(loc[t].err).code = "NOT_FOUND"
    /\ loc[t].id \in DOMAIN memory

\* the request passes the middleware and lacks a field its route requires
MissingField(h) ==
  /\ Middleware(h) = NextMw
  /\ \/ h.path = "/memory.store" /\ ~Truthy(h.payload.text)
     \/ h.path = "/memory.search" /\ ~Truthy(h.payload.query)
     \/ h.path = "/memory.update"
          /\ (h.payload.memoryId = 0 \/ h.payload.updates = NoUpdates)

\* C13: a request to memory.store without text, to memory.search without
\* query, or to memory.update without memoryId or updates is answered with
\* INVALID_REQUEST and changes no row of memory or memory_entities.
C13_MissingFieldInvalidRequest ==
  [][\A t \in Procs, h \in HttpInputs :
       (MissingField(h) /\ Receive(t, h)) =>
         /\ pc'[t] = "failed"
         /\ errorHandler(loc'[t].err).code = "INVALID_REQUEST"
         /\ memory' = memory /\ entities' = entities]_vars

\* the request's authorization header is missing or names no configured key
BadToken(h) == h.auth \notin API_KEYS

\* the request's envelope lacks the version, the service, the action or the
\* payload, or names another version or service
Malformed(h) ==
  \/ h.version # "mcp.v1" \/ h.service # "user-memory"
  \/ h.action = "" \/ h.payload = NoPayload

\* task t answers with the status and code, and nothing else changes: no
\* handler is entered, no row, id, cache entry or statistic is touched
Refused(t, status, code) ==
  /\ pc'[t] = "done" /\ loc'[t].out.kind = "rejected"
  /\ loc'[t].out.status = status /\ loc'[t].out.code = code
  /\ UNCHANGED <<dbVars, nextId, embVars>>

Returning(c) == pc[c] # "done" /\ pc'[c] = "done"

\* the rows of table m created at or after instant cut
KeptFrom(m, cut) == [i \in {j \in DOMAIN m : m[j].createdAt >= cut} |-> m[i]]
\* the rows of entity table e whose record is in ids
RowsOf(e, ids) == [r \in {x \in DOMAIN e : x.mid \in ids} |-> e[r]]

\* C15: a retention check that runs alone and without a failing statement
\* leaves the tables as follows.  When the newest record is more than
\* maxDays whole days younger than the oldest, the records created before
\* oldest + purgeDays days are gone with their entity rows, and every other
\* record and entity row is as it was; otherwise both tables are as they
\* were when the check began.
C15_CheckPurgesTheOldestDays ==
  [][\A c \in Checks :
       Returning(c) =>
         LET m0  == ret.run[c].was.memory
             e0  == ret.run[c].was.entities
             old == SetMin(CreatedAt(m0))
             new == SetMax(CreatedAt(m0))
         IN  IF DOMAIN m0 # {} /\ new - old >= (maxDays + 1) * DayMs
             THEN /\ memory' = KeptFrom(m0, old + purgeDays * DayMs)
                  /\ memory' # m0
                  /\ entities' = RowsOf(e0, DOMAIN memory')
             ELSE memory' = m0 /\ entities' = e0]_vars

\* a check has purged some records and left others; the run before it left
\* the data alone
C15_PurgedSomeKeptSome ==
  \E c, d \in Checks :
    /\ ret.run[c].out = "purged" /\ ret.run[c].purgeCount >= 1
    /\ DOMAIN memory # {}
    /\ ret.run[d].out = "passed" /\ ret.run[d].no < ret.run[c].no


\* whole days between the oldest and the newest record of table m
AgeDays(m) == (SetMax(CreatedAt(m)) - SetMin(CreatedAt(m))) \div DayMs

\* C16: when a retention check that purged returns, the records that remain
\* span at most maxDays whole days.
C16_PurgeBringsAgeWithinLimit ==
  [][\A c \in Checks :
       (Returning(c) /\ ret'.run[c].out = "purged") =>
         (DOMAIN memory' = {} \/ AgeDays(memory') <= maxDays)]_vars

\* C17: whatever statement of a check or purge fails, no row of
\* memory_entities is left whose record is gone, and a check that goes on
\* to purge, after a failed one as after any other, works from the oldest
\* record in the table.
C17_NoEntityRowOutlivesItsRecord ==
  /\ \A r \in DOMAIN entities : r.mid \in DOMAIN memory
  /\ \A c \in Checks :
       pc[c] \in {"pg_count", "pg_entities", "pg_records"} =>
         /\ DOMAIN memory # {}
         /\ ret.run[c].oldest = SetMin(CreatedAt(memory))
         /\ ret.run[c].cutoff = ret.run[c].oldest + purgeDays * DayMs

\* a purge failed after deleting the entity rows, and a later check purged
\* from the oldest record it found
C17_LaterCheckCompletesThePurge ==
  \E c, d \in Checks :
    /\ ret.run[c].out = "purge failed" /\ ret.run[c].steps # << >>
    /\ ret.run[d].out = "purged" /\ ret.run[d].no > ret.run[c].no
    /\ ret.run[d].oldest = ret.run[c].oldest

C19_NoCheckAfterStop ==
  [][/\ (~ret.timer /\ ret'.timer) =>
          \E c \in Checks : ret.run[c].caller = "start" /\ Returning(c)
     /\ pc[Closer] = "done" =>
          /\ ~ret'.timer
          /\ \A c \in Checks : pc'[c] = pc[c] /\ ret'.run[c] = ret.run[c]]_vars

\* C20: initialisation makes at most MAX_RETRIES attempts; it waits for
\* another attempt only after a lock error on an attempt before the last,
\* for RETRY_DELAY_MS times the attempt's number; a failed attempt that is
\* not retried ends initialisation with the error it met, and
\* isInitialized is false until an attempt succeeds.
C20_RetriesOnlyOnLock ==
  [][/\ dbs'.attempt <= MAX_RETRIES
     /\ (pc[Db] = "db_connect" /\ pc'[Db] = "db_wait") =>
          /\ Includes(dbs'.err, "Could not set lock")
          /\ dbs.attempt < 5
          /\ dbs'.delay = 3000 * dbs.attempt
     /\ (pc[Db] = "db_connect" /\ pc'[Db] = "failed") =>
          /\ dbs'.err # MsgNone /\ ~dbs'.isInitialized
          /\ Includes(dbs'.err, "Could not set lock") => dbs.attempt = 5
     /\ (pc'[Db] \in {"db_connect", "db_wait", "failed"}) => ~dbs'.isInitialized]_vars

\* the fifth attempt met the lock and initialisation gave up
C20_GaveUpOnFifthLock ==
  /\ pc[Db] = "failed" /\ dbs.attempt = 5 /\ ~dbs.isInitialized
  /\ Includes(dbs.err, "Could not set lock")


\* stop() has returned from stopping a monitor that start() had started
MonitorStopped ==
  pc[Stopper] = "done" /\ pc[Starter] = "done" /\ ~mon.isRunning

\* C21: once stop() has returned no tick is in progress, and the tables
\* receive no further row.
C21_NoTickAfterStop ==
  [][MonitorStopped =>
       /\ TicksInFlight = {}
       /\ memory' = memory /\ entities' = entities]_vars

\* tick k gets its answer from extractText at this step
Recognising(k) == pc[k] = "tk_ocr" /\ pc'[k] # "tk_ocr"

\* tick k returns at this step as a skip that stored nothing
Skipped(k) ==
  /\ pc'[k] = "done"
  /\ mon'.skipCount = mon.skipCount + 1
  /\ mon'.captureCount = mon.captureCount
  /\ mon'.errorCount = mon.errorCount
  /\ UNCHANGED <<memory, entities, nextId>>

\* C22: a tick whose recognition returns the text that the recognition
\* before it returned counts a skip, no capture, and stores no record.
C22_RepeatedTextSkipped ==
  [][\A k \in Ticks :
       (Recognising(k) /\ ocr'.last.same) => Skipped(k)]_vars

\* the first tick stored a text and the second, recognising the same text,
\* was skipped
C22_SecondTickSawSameText ==
  /\ mon.skipCount = 1 /\ mon.captureCount = 1 /\ mon.errorCount = 0
  /\ ocr.last.same /\ TextLen(ocr.last.text) >= MinOcrLen
  /\ ocr.lastTextHash = Sha256(ocr.last.text)
  /\ Cardinality(DOMAIN memory) = 1 /\ TicksInFlight = {}

\* C23: after every recognition that returns a text, lastTextHash is the
\* SHA-256 of that text.
C23_HashFollowsEveryText ==
  [][\A k \in Ticks :
       (Recognising(k) /\ ocr'.last.ok /\ Truthy(ocr'.last.text)) =>
         ocr'.lastTextHash = Sha256(ocr'.last.text)]_vars

\* tick k is entered at this step and finds the system active
Entering(k) == Idle(k) /\ pc'[k] = "tk_capture"

\* C24: a tick that finds the system active goes on to OCR exactly when it
\* got a screenshot and either the window differs from the one the tick
\* before it found or more than diffThreshold of the pixels differ from the
\* screenshot before (all of them when there is none to compare with);
\* otherwise it counts a skip and stores nothing.
C24_OcrIffWindowOrPixelsChanged ==
  [][\A k \in Ticks :
       /\ Entering(k) =>
            loc'[k].titleChanged =
              (mon'.lastAppName # mon.lastAppName
               \/ mon'.lastWindowTitle # mon.lastWindowTitle)
       /\ (pc[k] = "tk_capture" /\ pc'[k] # "tk_capture") =>
            \/ pc'[k] = "tk_diff" /\ loc'[k].shot \in Screens
            \/ Skipped(k)
       /\ (pc[k] = "tk_diff" /\ pc'[k] # "tk_diff") =>
            LET base  == shot.lastScreenshotPNG
                ratio == IF loc[k].first \/ base = NoShot THEN 100
                         ELSE DiffRatio(base, loc[k].shot)
            IN  IF loc[k].titleChanged \/ ratio > 15
                THEN pc'[k] \in {"tk_ocr", "tk_ocrinit"}
                ELSE Skipped(k)]_vars

\* a tick in an unchanged window went on to OCR because the pixels differed
\* by just more than the threshold
C24_PixelsJustOverThreshold ==
  \E k \in Ticks :
    /\ pc[k] = "tk_ocr" /\ ~loc[k].titleChanged /\ ~loc[k].first
    /\ shot.lastScreenshotPNG = "s3" /\ mon.skipCount = 0
    /\ TicksCounted = 1

\* C25: a tick that returns from its idle check counts one skip and leaves
\* the other counters, the window last seen, the screenshot baseline, the
\* text hash and the tables as they were.
C25_IdleTickOnlySkips ==
  [][\A k \in Ticks :
       (Idle(k) /\ mon.caller[k] = "none" /\ TicksCounted' # TicksCounted
          /\ pc'[k] = "done" /\ \A j \in Ticks \ {k} : pc'[j] = pc[j]) =>
         /\ Skipped(k)
         /\ mon'.lastAppName = mon.lastAppName
         /\ mon'.lastWindowTitle = mon.lastWindowTitle
         /\ shot' = shot
         /\ ocr'.lastTextHash = ocr.lastTextHash /\ ocr'.last = ocr.last]_vars

\* both ticks found the system idle: no window has been looked at
C25_IdleTicksSawNoWindow ==
  /\ mon.skipCount = 2 /\ TicksCounted = 2 /\ TicksInFlight = {}
  /\ mon.lastAppName = NoWin.appName
  /\ mon.lastWindowTitle = NoWin.windowTitle
  /\ shot.lastScreenshotBuffer = NoShot /\ ocr.lastTextHash = NoHash

\* C26: a tick whose recognition fails counts an error, not a skip or a
\* capture, and stores nothing.
C26_OcrFailureCountsAsError ==
  [][\A k \in Ticks :
       (Recognising(k) /\ ~ocr'.last.ok) =>
         /\ mon'.errorCount = mon.errorCount + 1
         /\ mon'.skipCount = mon.skipCount
         /\ mon'.captureCount = mon.captureCount
         /\ UNCHANGED <<memory, entities>>]_vars


\* the caller's call of generateEmbedding begins at this step
Calling(t) == Idle(t) /\ loc'[t] # loc[t]

ModelFails(t) ==
  /\ pc[t] = "em_model" /\ pc'[t] # "em_model"
  /\ \/ pc'[t] = "failed" /\ loc'[t].err = MsgModel
     \/ pc'[t] = "done" /\ loc'[t].out.vec.via = "fallback"

\* C29: a call of generateEmbedding whose model call fails returns the
\* deterministic fallback vector of its text and has cached it.
C29_ModelFailureYieldsFallback ==
  [][\A t \in Procs :
       ModelFails(t) =>
         /\ pc'[t] = "done"
         /\ loc'[t].out.vec = generateDeterministicEmbedding(loc[t].text)
         /\ \E i \in 1..Len(cache') :
              /\ cache'[i].key = getCacheKey(loc[t].text)
              /\ cache'[i].vec = loc'[t].out.vec]_vars


\* the keys a cache holds
Keys(c) == {c[i].key : i \in 1..Len(c)}

\* the place of key's last use in the caller's record of its calls, 0 when it
\* has none
LastUse(key) ==
  LET S == {i \in 1..Len(loc["p1"].rows) : loc["p1"].rows[i] = key}
  IN  IF S = {} THEN 0 ELSE SetMax(S)

\* C28: the cache never holds more than its capacity, and a key that enters a
\* full cache takes the place of the key whose last use, by a hit or by its
\* insertion, is the oldest.
C28_EvictsLeastRecentlyUsed ==
  [][/\ Len(cache') <= CacheSize
     /\ (Len(cache) = CacheSize /\ Keys(cache') \ Keys(cache) # {}) =>
          \E old \in Keys(cache) :
            /\ Keys(cache') =
                 (Keys(cache) \ {old}) \cup (Keys(cache') \ Keys(cache))
            /\ \A k \in Keys(cache) : LastUse(old) <= LastUse(k)]_vars


\* the caller holds the answer to a query that matches a positional pattern
\* and no discourse marker
PositionalAsked(t) ==
  /\ pc[t] = "done" /\ req[t].op = "classify"
  /\ positionalWithContext(req[t].text.core)
  /\ ~discourseMarkers(req[t].text.core)

\* the request names a session and a history
WithContext(o) ==
  /\ (o.sessionId \notin {NoSession, ""} \/ o.context.sessionId \notin {NoSession, ""})
  /\ (o.context.messageCount > 0 \/ o.context.hasHistory)

\* the query has a conversational pronoun and a temporal reference to
\* something said
StrongSignals(w) ==
  /\ conversationalPronouns(w)
  /\ temporalConversational(w) \/ temporalConversationalReverse(w)

NoContext(o) ==
  /\ o.sessionId = NoSession /\ o.context.sessionId = NoSession
  /\ o.context.messageCount = -1 /\ ~o.context.hasHistory

\* the caller holds classifier op's answer to query q, asked without context
AskedBare(t, op, q) ==
  /\ pc[t] = "done" /\ req[t].op = op /\ req[t].text = q
  /\ NoContext(req[t].opts)

Classed(t, classification) ==
  /\ loc[t].out.classification = classification
  /\ loc[t].out.isConversational = (classification # "GENERAL")

\* the four answers of the claim, from the classifier called as op
TestAnswers(t, op) ==
  /\ AskedBare(t, op, SayFirst) =>
       Classed(t, "POSITIONAL") /\ loc[t].out.confidence > 90
  /\ AskedBare(t, op, TopicsDiscuss) => Classed(t, "TOPICAL")
  /\ AskedBare(t, op, Summarize) => Classed(t, "OVERVIEW")
  /\ AskedBare(t, op, Weather) => Classed(t, "GENERAL")

C32_DidWeDiscussIsTopical ==
  \A t \in Procs :
    (pc[t] = "done" /\ req[t].op = "classify" /\ req[t].text = DidWeDiscuss
       /\ WithContext(req[t].opts)) =>
      /\ loc[t].out.classification = "TOPICAL"
      /\ loc[t].out.confidence = 92


\* C33: context_rules never holds two rows with the same contextType, the
\* same contextKey and the same ruleText after trimming.
C33_RulesUniqueAfterTrim ==
  \A i, j \in 1..Len(dbs.rules) :
    (/\ dbs.rules[i].contextType = dbs.rules[j].contextType
     /\ dbs.rules[i].contextKey = dbs.rules[j].contextKey
     /\ Trim(dbs.rules[i].ruleText) = Trim(dbs.rules[j].ruleText)) => i = j

\* The directory a path names once a leading "~" stands for the home
\* directory and every ".." has taken its parent away; a relative path
\* names none.
Target(exec_path) ==
  LET full == IF exec_path # << >> /\ Head(exec_path) = "~"
                THEN homedir \o Tail(exec_path) ELSE exec_path
  IN  IF full # << >> /\ Head(full) = "/"
        THEN Resolved(<< >>, Segments(full)) ELSE << >>

\* the path lies inside <home>/.thinkdrop/skills/
InSkillsDir(exec_path) ==
  LET base == Segments(SKILLS_BASE_DIR)
      segs == Target(exec_path)
  IN  Len(segs) > Len(base) /\ SubSeq(segs, 1, Len(base)) = base

\* C34: install accepts a contract only if its exec_path, with a leading ~
\* and every ".." resolved, lies inside <home>/.thinkdrop/skills/; a
\* contract with any other exec_path is rejected and installed_skills stays
\* as it was.
C34_InstallOnlyInsideSkillsDir ==
  [][\A t \in Procs :
       /\ (Idle(t) /\ pc'[t] = "sk_select")
            => InSkillsDir(req'[t].opts.contract.exec_path)
       /\ (pc[t] \in {"sk_update", "sk_insert"} /\ dbs'.skills # dbs.skills)
            => InSkillsDir(req[t].opts.contract.exec_path)]_vars

\* the timestamps of a text
StampsOf(text) == {text[i].v : i \in {j \in DOMAIN text : text[j].k = "ts"}}

\* C35: every timestamp of the text given to the gibberish filter stands
\* in the text it returns, however many timestamps the text holds.
C35_TimestampsSurviveFilter ==
  \A t \in Procs :
    (pc[t] = "done" /\ req[t].op = "filter")
      => StampsOf(req[t].ents) \subseteq StampsOf(loc[t].rows)

\* a step of t's Update
Updating(t) == req[t].op = "update" /\ pc'[t] # pc[t]

\* C36: an Update never takes the record out of the store: at every
\* step of an Update of a record that is there, one that fails part-way
\* included, the record is still there afterwards, so that a Retrieve at
\* any moment finds the old or the new version.
C36_UpdateKeepsRecordPresent ==
  [][\A t \in Procs :
       (Updating(t) /\ req[t].id \in DOMAIN memory)
         => req[t].id \in DOMAIN memory']_vars

\* a step of a Delete or an Update that t issued for a record of another
\* user
WritingForeign(t) ==
  /\ req[t].op \in {"delete", "update"}
  /\ pc'[t] # pc[t]
  /\ req[t].id \in DOMAIN memory
  /\ memory[req[t].id].user # req[t].user

\* C37: a Delete or an Update issued under one userId with the id of a
\* record of another user leaves that record and every entity row of it as
\* they were.
C37_WritesScopedToCaller ==
  [][\A t \in Procs :
       WritingForeign(t)
         => /\ req[t].id \in DOMAIN memory'
            /\ memory'[req[t].id] = memory[req[t].id]
            /\ SelectEntities(req[t].id)
                 = [r \in {x \in DOMAIN entities' : x.mid = req[t].id} |->
                      entities'[r]]]_vars

\* the capture of the text recognised last has failed: the recognition
\* before this one returned a text long enough to be stored, no other tick
\* is in progress, an error has been counted and the store holds no record
LastCaptureFailed(k) ==
  /\ ocr.last.ok /\ TextLen(ocr.last.text) >= MinOcrLen
  /\ TicksInFlight = {k}
  /\ mon.errorCount > 0
  /\ DOMAIN memory = {}

\* C38: a capture whose storage failed is not lost: the next tick whose
\* recognition returns the same text is not skipped as a duplicate but
\* goes on to store it.
C38_FailedCaptureStoredByNextTick ==
  [][\A k \in Ticks :
       (Recognising(k) /\ LastCaptureFailed(k) /\ ocr'.last.same)
         => ~Skipped(k)]_vars

\* C39: whenever no retention check is in progress, totalPurged is the
\* number of records the purges have deleted from memory, purges that
\* failed after their deletions included.
C39_TotalPurgedCountsDeletions ==
  Resting(Checks) => ret.totalPurged = ret.deleted

\* the retention checks in progress
ChecksInFlight == {c \in Checks : pc[c] \notin {"idle", "done"}}

\* C40: at most one retention check, and so at most one purge, is in
\* progress at any time: the check of the timer, the check of start() and
\* the final check of stop() never overlap.
C40_OneCheckAtATime == Cardinality(ChecksInFlight) <= 1

====
